---- MODULE Spec2Model ----
(***************************************************************************)
(* A model of cargo-wop (src/cargo-wop.rs): the descriptor extractor       *)
(* (parse_manifest), the command resolver (parse_args), the descriptor     *)
(* normalizer (normalize_manifest) and the dispatcher (execute_args) with  *)
(* the cache directory it materializes.                                    *)
(*                                                                         *)
(* Text is modelled as a sequence of tokens.  A token is a string that     *)
(* the program never looks inside: "//!" , " " , "cargo" , a TOML line     *)
(* such as "[package]" , a path component such as "foo" or "." .  The      *)
(* token "~~~" stands for the three backquotes of a code fence, which a    *)
(* TLA+ string cannot hold.  Every prefix test, strip and split of the     *)
(* source works on token boundaries of the inputs enumerated here.         *)
(***************************************************************************)
EXTENDS Integers, Sequences, FiniteSets, TLC

(***************************************************************************)
(* Bounds of the model                                                     *)
(***************************************************************************)
\* most [[bin]] entries of a descriptor handed to normalize_manifest by SpecNorm
MaxBins == 2

\* most lines of build output handed to parse_build_output by SpecBuild
MaxEvents == 3

\* longest script, in lines, handed to parse_manifest by SpecParse
MaxLines == 4
\* most arguments after the command keyword handed to parse_args by SpecArgs
MaxRest == 4

(***************************************************************************)
(* Generic helpers                                                         *)
(***************************************************************************)
\* all sequences over S of length 0..n
SeqsUpTo(S, n) == UNION {[1..k -> S] : k \in 0..n}

\* s[from..] (1-based), the empty sequence when from > Len(s)
Drop(s, from) == IF from > Len(s) THEN <<>> ELSE SubSeq(s, from, Len(s))

\* s[..upto]
Take(s, upto) == IF upto < 1 THEN <<>> ELSE SubSeq(s, 1, upto)

\* str::starts_with
starts_with(s, prefix) ==
    /\ Len(s) >= Len(prefix)
    /\ \A i \in 1..Len(prefix) : s[i] = prefix[i]

\* the white-space tokens of str::trim_start
IsWhitespace(tok) == tok \in {" ", "\t"}

\* str::trim_start: every leading white-space token is dropped
RECURSIVE trim_start(_)
trim_start(s) ==
    IF s # <<>> /\ IsWhitespace(Head(s)) THEN trim_start(Tail(s)) ELSE s

(***************************************************************************)
(* TOML values (toml::Value): a tagged record, v is the payload            *)
(***************************************************************************)
VString(s) == [t |-> "String", v |-> s]
VInteger(i) == [t |-> "Integer", v |-> i]
VArray(a) == [t |-> "Array", v |-> a]
VTable(f) == [t |-> "Table", v |-> f]

\* Value::Table(Default::default())
EmptyTable == VTable(<<>>)

is_table(x) == x.t = "Table"
is_array(x) == x.t = "Array"
is_str(x) == x.t = "String"

\* Map::contains_key
contains_key(tab, k) == k \in DOMAIN tab

\* Map::insert: the key is added or its value replaced
insert(tab, k, x) == [j \in (DOMAIN tab) \cup {k} |-> IF j = k THEN x ELSE tab[j]]

\* Map::remove
remove(tab, k) == [j \in (DOMAIN tab) \ {k} |-> tab[j]]

(***************************************************************************)
(* toml::from_str on the TOML lines the model knows.  A line is a table    *)
(* header, an array-of-tables header, a key/value pair or blank; any other *)
(* line is a syntax error.  A TOML string is a token sequence; a table is  *)
(* a function from its keys.                                               *)
(***************************************************************************)
TomlLine(tok) ==
    CASE tok = "[package]" -> [kind |-> "table", key |-> "package", val |-> EmptyTable]
      [] tok = "[lib]" -> [kind |-> "table", key |-> "lib", val |-> EmptyTable]
      [] tok = "[dependencies]" -> [kind |-> "table", key |-> "dependencies", val |-> EmptyTable]
      [] tok = "[cargo-wop]" -> [kind |-> "table", key |-> "cargo-wop", val |-> EmptyTable]
      [] tok = "[[bin]]" -> [kind |-> "array", key |-> "bin", val |-> EmptyTable]
      [] tok = "name='x'" -> [kind |-> "kv", key |-> "name", val |-> VString(<<"x">>)]
      [] tok = "name='y'" -> [kind |-> "kv", key |-> "name", val |-> VString(<<"y">>)]
      [] tok = "version='2'" -> [kind |-> "kv", key |-> "version", val |-> VString(<<"2">>)]
      [] tok = "path='p'" -> [kind |-> "kv", key |-> "path", val |-> VString(<<"p">>)]
      [] tok = "bin=1" -> [kind |-> "kv", key |-> "bin", val |-> VInteger(1)]
      [] tok = "dep={path='d'}" ->
            [kind |-> "kv", key |-> "dep", val |-> VTable("path" :> VString(<<"d">>))]
      [] tok = "gone={path='gone'}" ->
            [kind |-> "kv", key |-> "gone", val |-> VTable("path" :> VString(<<"gone">>))]
      [] tok = "dep='1.0'" -> [kind |-> "kv", key |-> "dep", val |-> VString(<<"1", ".", "0">>)]
      [] tok = "filter={a='',b='c'}" ->
            [kind |-> "kv", key |-> "filter",
             val |-> VTable(("a" :> VString(<<>>)) @@ ("b" :> VString(<<"c">>)))]
      [] tok = "filter='a'" -> [kind |-> "kv", key |-> "filter", val |-> VString(<<"a">>)]
      [] tok = "default-action=['build']" ->
            [kind |-> "kv", key |-> "default-action",
             val |-> VArray(<<VString(<<"build">>)>>)]
      [] tok = "default-action=['test']" ->
            [kind |-> "kv", key |-> "default-action",
             val |-> VArray(<<VString(<<"test">>)>>)]
      [] tok = "default-action=[]" ->
            [kind |-> "kv", key |-> "default-action", val |-> VArray(<<>>)]
      [] tok = "default-action='run'" ->
            [kind |-> "kv", key |-> "default-action", val |-> VString(<<"run">>)]
      [] tok = "default-action=['foo.rs']" ->
            [kind |-> "kv", key |-> "default-action",
             val |-> VArray(<<VString(<<"foo", ".", "rs">>)>>)]
      [] tok = "default-action=['build','--target','wasm32-unknown-unknown']" ->
            [kind |-> "kv", key |-> "default-action",
             val |-> VArray(<<VString(<<"build">>), VString(<<"--target">>),
                              VString(<<"wasm32-unknown-unknown">>)>>)]
      [] tok = "name='foo'" -> [kind |-> "kv", key |-> "name", val |-> VString(<<"foo">>)]
      [] tok = "crate-type=['cdylib']" ->
            [kind |-> "kv", key |-> "crate-type", val |-> VArray(<<VString(<<"cdylib">>)>>)]
      [] tok = "pyo3={version='0.13',features=['extension-module']}" ->
            [kind |-> "kv", key |-> "pyo3",
             val |-> VTable(("version" :> VString(<<"0", ".", "13">>))
                            @@ ("features" :> VArray(<<VString(<<"extension-module">>)>>)))]
      [] tok = "filter={'libfoo.so'='foo.so'}" ->
            [kind |-> "kv", key |-> "filter",
             val |-> VTable("libfoo.so" :> VString(<<"foo", ".", "so">>))]
      [] tok = "default-action=[1]" ->
            [kind |-> "kv", key |-> "default-action", val |-> VArray(<<VInteger(1)>>)]
      [] OTHER -> [kind |-> "invalid", key |-> "", val |-> EmptyTable]

\* the text up to the first "\n" token, and the text after it
RECURSIVE first_line(_)
first_line(text) ==
    IF text = <<>> \/ Head(text) = "\n" THEN <<>> ELSE <<Head(text)>> \o first_line(Tail(text))

after_first_line(text) == Drop(text, Len(first_line(text)) + 2)

\* str::lines
RECURSIVE lines_of(_)
lines_of(text) ==
    IF text = <<>> THEN <<>> ELSE <<first_line(text)>> \o lines_of(after_first_line(text))

\* the parser's state: the document so far and the table the next key goes
\* to (cur.key = "": the root; cur.idx = 0: the table cur.key; otherwise the
\* cur.idx-th table of the array cur.key)
TomlStart == [ok |-> TRUE, doc |-> <<>>, cur |-> [key |-> "", idx |-> 0]]

TomlFail(st) == [st EXCEPT !.ok = FALSE]

\* white space before a line is insignificant; a blank line and a comment
\* (a line that starts with the token "#") are skipped
TomlStep(st, rawline) ==
    LET line == trim_start(rawline)
        e == TomlLine(IF line = <<>> THEN "" ELSE line[1])
    IN  IF ~st.ok THEN st
        ELSE IF line = <<>> \/ line[1] = "#" THEN st
        ELSE IF Len(line) > 1 \/ e.kind = "invalid" THEN TomlFail(st)
        ELSE IF e.kind = "table" THEN
            IF contains_key(st.doc, e.key) THEN TomlFail(st)
            ELSE [st EXCEPT !.doc = insert(st.doc, e.key, EmptyTable),
                            !.cur = [key |-> e.key, idx |-> 0]]
        ELSE IF e.kind = "array" THEN
            IF ~contains_key(st.doc, e.key) THEN
                [st EXCEPT !.doc = insert(st.doc, e.key, VArray(<<EmptyTable>>)),
                           !.cur = [key |-> e.key, idx |-> 1]]
            ELSE IF ~is_array(st.doc[e.key]) THEN TomlFail(st)
            ELSE [st EXCEPT
                    !.doc = insert(st.doc, e.key,
                                   VArray(Append(st.doc[e.key].v, EmptyTable))),
                    !.cur = [key |-> e.key, idx |-> Len(st.doc[e.key].v) + 1]]
        ELSE \* a key/value pair of the current table
            IF st.cur.key = "" THEN
                IF contains_key(st.doc, e.key) THEN TomlFail(st)
                ELSE [st EXCEPT !.doc = insert(st.doc, e.key, e.val)]
            ELSE IF st.cur.idx = 0 THEN
                LET tab == st.doc[st.cur.key].v IN
                IF contains_key(tab, e.key) THEN TomlFail(st)
                ELSE [st EXCEPT
                        !.doc = insert(st.doc, st.cur.key, VTable(insert(tab, e.key, e.val)))]
            ELSE
                LET arr == st.doc[st.cur.key].v
                    tab == arr[st.cur.idx].v
                IN  IF contains_key(tab, e.key) THEN TomlFail(st)
                    ELSE [st EXCEPT
                            !.doc = insert(st.doc, st.cur.key,
                                VArray([arr EXCEPT
                                    ![st.cur.idx] = VTable(insert(tab, e.key, e.val))]))]

RECURSIVE TomlFold(_, _)
TomlFold(st, ls) == IF ls = <<>> THEN st ELSE TomlFold(TomlStep(st, Head(ls)), Tail(ls))

\* toml::from_str(&result): [ok, doc]
from_str(text) == TomlFold(TomlStart, lines_of(text))

(***************************************************************************)
(* manifest_parsing                                                        *)
(***************************************************************************)
DocPrefix == <<"//!">>
ManifestStartPrefix == <<"//!", " ", "~~~", "cargo">>
ManifestEndPrefix == <<"//!", " ", "~~~">>

\* a descriptor line as the line of a doc comment
Commented(d) == <<"//!", " ">> \o d

\* LineStart::from with the two marker tests in the other order: the close
\* marker's prefix also starts every open marker
LineStart_from_close_first(line) ==
    IF starts_with(line, ManifestEndPrefix) THEN "ManifestEnd"
    ELSE IF starts_with(line, ManifestStartPrefix) THEN "ManifestStart"
    ELSE IF starts_with(line, DocPrefix) THEN "DocComment"
    ELSE "Other"

\* impl From<&str> for LineStart
LineStart_from(line) ==
    IF starts_with(line, ManifestStartPrefix) THEN "ManifestStart"
    ELSE IF starts_with(line, ManifestEndPrefix) THEN "ManifestEnd"
    ELSE IF starts_with(line, DocPrefix) THEN "DocComment"
    ELSE "Other"

\* line.strip_prefix("//!").unwrap().trim_start()
strip_doc_prefix(line) == trim_start(Drop(line, Len(DocPrefix) + 1))

\* Ok(Value::Table(Default::default())): no descriptor block was found
ParseEmpty(result) ==
    [tag |-> "Ok", block |-> FALSE, raw |-> result, doc |-> <<>>, err |-> ""]

\* bail!(msg)
ParseErr(result, msg) ==
    [tag |-> "Err", block |-> FALSE, raw |-> result, doc |-> <<>>, err |-> msg]

\* return Ok(toml::from_str(&result)?)
ParseBlock(result) ==
    LET r == from_str(result) IN
    IF r.ok THEN [tag |-> "Ok", block |-> TRUE, raw |-> result, doc |-> r.doc, err |-> ""]
    ELSE [tag |-> "Err", block |-> TRUE, raw |-> result, doc |-> <<>>, err |-> "toml"]

\* the for loop of parse_manifest from line i on, and the code after it
RECURSIVE parse_manifest_from(_, _, _, _)
parse_manifest_from(lines, i, state, result) ==
    IF i > Len(lines) THEN
        IF state = "Manifest" THEN ParseErr(result, "Incomplete manifest")
        ELSE ParseEmpty(result)
    ELSE
        LET line == lines[i]
            line_start == LineStart_from(line)
        IN  CASE state = "Start" /\ line_start = "Other" -> ParseEmpty(result)
              [] state = "DocComment" /\ line_start = "Other" -> ParseEmpty(result)
              [] state = "Start" /\ line_start = "DocComment" ->
                    parse_manifest_from(lines, i + 1, "DocComment", result)
              [] state = "Start" /\ line_start = "ManifestEnd" ->
                    parse_manifest_from(lines, i + 1, state, result)
              [] state = "DocComment" /\ line_start = "DocComment" ->
                    parse_manifest_from(lines, i + 1, state, result)
              [] state = "DocComment" /\ line_start = "ManifestEnd" ->
                    parse_manifest_from(lines, i + 1, state, result)
              [] state = "Start" /\ line_start = "ManifestStart" ->
                    parse_manifest_from(lines, i + 1, "Manifest", result)
              [] state = "DocComment" /\ line_start = "ManifestStart" ->
                    parse_manifest_from(lines, i + 1, "Manifest", result)
              [] state = "Manifest" /\ line_start = "DocComment" ->
                    parse_manifest_from(lines, i + 1, state,
                                        result \o strip_doc_prefix(line) \o <<"\n">>)
              [] state = "Manifest" /\ line_start = "ManifestEnd" -> ParseBlock(result)
              [] state = "Manifest" /\ line_start = "ManifestStart" ->
                    ParseErr(result, "Invalid manifest")
              [] state = "Manifest" /\ line_start = "Other" ->
                    ParseErr(result, "Invalid manifest")

\* parse_manifest that skips a line of ordinary code instead of returning at it
parse_manifest_skipping_code(reader) ==
    parse_manifest_from(SelectSeq(reader, LAMBDA l : LineStart_from(l) # "Other"),
                        1, "Start", <<>>)

\* pub fn parse_manifest(reader: impl Read) -> Result<Value>
parse_manifest(reader) == parse_manifest_from(reader, 1, "Start", <<>>)

(***************************************************************************)
(* std::path on token sequences: "/" separates components, "." is the dot  *)
(***************************************************************************)
\* the token standing for bytes that are not UTF-8
NonUtf8 == "<non-utf8>"

\* the text before the first "/" and the text after it
RECURSIVE first_segment(_)
first_segment(p) ==
    IF p = <<>> \/ Head(p) = "/" THEN <<>> ELSE <<Head(p)>> \o first_segment(Tail(p))

RECURSIVE segments(_)
segments(p) ==
    IF p = <<>> THEN <<>>
    ELSE <<first_segment(p)>> \o segments(Drop(p, Len(first_segment(p)) + 2))

\* Path::components without the root: empty segments and "." segments vanish
components(p) == SelectSeq(segments(p), LAMBDA c : c # <<>> /\ c # <<".">>)

\* Path::file_name: the last component unless it is ".." ; <<>> stands for None
has_file_name(p) ==
    /\ components(p) # <<>>
    /\ components(p)[Len(components(p))] # <<".", ".">>

file_name(p) == components(p)[Len(components(p))]

\* the position of the last "." of a file name, 0 when it has none
RECURSIVE last_dot(_)
last_dot(f) ==
    IF f = <<>> THEN 0
    ELSE IF f[Len(f)] = "." THEN Len(f)
    ELSE last_dot(Take(f, Len(f) - 1))

\* Path::extension().is_some(): the file name has a "." that is not its first
\* character
path_has_extension(p) == has_file_name(p) /\ last_dot(file_name(p)) > 1

\* Path::file_stem, defined when has_file_name
file_stem(p) ==
    IF last_dot(file_name(p)) > 1 THEN Take(file_name(p), last_dot(file_name(p)) - 1)
    ELSE file_name(p)

\* OsStr::to_str().is_some()
is_utf8(s) == \A i \in 1..Len(s) : s[i] # NonUtf8

(***************************************************************************)
(* argparse                                                                *)
(***************************************************************************)
CargoCommands ==
    {"bench", "build", "build-debug", "check", "clean", "clippy", "fmt", "install",
     "locate-project", "metadata", "pkgid", "run", "run-debug", "tree", "test",
     "verify-project"}

\* fn is_cargo_command(command: &str) -> bool
is_cargo_command(command) == Len(command) = 1 /\ command[1] \in CargoCommands

\* has_extension that lets the keyword table win: a script whose stem is a
\* cargo command counts as that command
has_extension_unless_keyword(s) ==
    path_has_extension(s) /\ ~is_cargo_command(file_stem(s))

\* fn has_extension(s: &OsStr) -> bool
has_extension(s) == path_has_extension(s)

\* the position of the first "--" of args, 0 when there is none
\* (self.args.iter().position(|s| s == "--"))
RECURSIVE position_of_separator(_)
position_of_separator(args) ==
    IF args = <<>> THEN 0
    ELSE IF Head(args) = <<"--">> THEN 1
    ELSE IF position_of_separator(Tail(args)) = 0 THEN 0
    ELSE position_of_separator(Tail(args)) + 1

\* CargoCall::split_args that hands run's arguments to cargo when there is
\* no "--"
split_args_cargo_by_default(command, args) ==
    IF command # <<"run">> THEN [cargo |-> args, command |-> <<>>]
    ELSE LET splitter == position_of_separator(args) IN
         IF splitter # 0
         THEN [cargo |-> Take(args, splitter - 1), command |-> Drop(args, splitter + 1)]
         ELSE [cargo |-> args, command |-> <<>>]

\* CargoCall::split_args: (cargo args, command args)
split_args(command, args) ==
    IF command # <<"run">> THEN [cargo |-> args, command |-> <<>>]
    ELSE LET splitter == position_of_separator(args) IN
         IF splitter # 0
         THEN [cargo |-> Take(args, splitter - 1), command |-> Drop(args, splitter + 1)]
         ELSE [cargo |-> <<>>, command |-> args]

\* the values of enum Args, and of Result<Args>
MkArgs(variant, command, target, args) ==
    [tag |-> "Ok", variant |-> variant, command |-> command, target |-> target,
     args |-> args, err |-> ""]

ArgsErr(msg) ==
    [tag |-> "Err", variant |-> "", command |-> <<>>, target |-> <<>>, args |-> <<>>,
     err |-> msg]

\* CargoCall::into_args
into_args(command, target, args) ==
    CASE command = <<"build">> -> MkArgs("BuildCargoCall", command, target, args)
      [] command = <<"install">> -> MkArgs("InstallCargoCall", command, target, args)
      [] OTHER -> MkArgs("GenericCargoCall", command, target, args)

\* CargoCall::normalize that adds --release for the debug keywords too
normalize_always_release(command, target, args) ==
    LET split == split_args(command, args)
        cargo_args == Append(split.cargo, <<"--release">>)
        new_args == IF split.command = <<>> THEN cargo_args
                    ELSE cargo_args \o <<(<<"--">>)>> \o split.command
        new_command == CASE command = <<"build-debug">> -> <<"build">>
                         [] command = <<"run-debug">> -> <<"run">>
                         [] OTHER -> command
    IN  [command |-> new_command, target |-> target, args |-> new_args]

\* CargoCall::normalize
normalize(command, target, args) ==
    LET split == split_args(command, args)
        cargo_args == IF command \in {<<"build">>, <<"run">>}
                      THEN Append(split.cargo, <<"--release">>)
                      ELSE split.cargo
        new_args == IF split.command = <<>> THEN cargo_args
                    ELSE cargo_args \o <<(<<"--">>)>> \o split.command
        new_command == CASE command = <<"build-debug">> -> <<"build">>
                         [] command = <<"run-debug">> -> <<"run">>
                         [] OTHER -> command
    IN  [command |-> new_command, target |-> target, args |-> new_args]

\* parse_args without its checks of the argument counts
parse_args_unchecked(args) ==
    IF Len(args) < 2 THEN ArgsErr("Need at least two arguments")
    ELSE IF args[1] # <<"wop">> THEN ArgsErr("First argument must be wop")
    ELSE IF has_extension(args[2]) THEN MkArgs("DefaultAction", <<>>, args[2], Drop(args, 3))
    ELSE LET command == args[2]
             rest_args == Drop(args, 3)
             target == IF rest_args = <<>> THEN <<>> ELSE rest_args[1]
         IN  CASE command = <<"manifest">> -> MkArgs("Manifest", <<>>, target, <<>>)
               [] command = <<"write-manifest">> -> MkArgs("WriteManifest", <<>>, target, <<>>)
               [] command \in {<<"help">>, <<"--help">>} -> MkArgs("Help", <<>>, <<>>, <<>>)
               [] command = <<"new">> ->
                    IF rest_args = <<>> THEN MkArgs("ListTemplates", <<>>, <<>>, <<>>)
                    ELSE MkArgs("New", rest_args[1], IF Len(rest_args) > 1 THEN rest_args[2] ELSE <<>>, <<>>)
               [] is_cargo_command(command) ->
                    LET call == normalize(command, target, Drop(rest_args, 2))
                    IN  into_args(call.command, call.target, call.args)
               [] OTHER -> ArgsErr("Unknown command")

\* pub fn parse_args(args: impl Iterator<Item = OsString>) -> Result<Args>
\* (Args::New carries its template in the command field)
parse_args(args) ==
    IF Len(args) < 2 THEN ArgsErr("Need at least two arguments")
    ELSE IF args[1] # <<"wop">> THEN ArgsErr("First argument must be wop")
    ELSE IF has_extension(args[2]) THEN MkArgs("DefaultAction", <<>>, args[2], Drop(args, 3))
    ELSE IF ~is_utf8(args[2]) THEN ArgsErr("Could not get utf8 rep")
    ELSE LET command == args[2]
             rest_args == Drop(args, 3)
         IN  CASE command = <<"manifest">> ->
                    IF Len(rest_args) = 1 THEN MkArgs("Manifest", <<>>, rest_args[1], <<>>)
                    ELSE ArgsErr("The manifest command expects a single argument")
               [] command = <<"write-manifest">> ->
                    IF Len(rest_args) = 1 THEN MkArgs("WriteManifest", <<>>, rest_args[1], <<>>)
                    ELSE ArgsErr("The manifest command expects a single argument")
               [] command \in {<<"help">>, <<"--help">>} ->
                    IF rest_args = <<>> THEN MkArgs("Help", <<>>, <<>>, <<>>)
                    ELSE ArgsErr("The help command does not understand extra arguments")
               [] command = <<"new">> ->
                    IF rest_args = <<>> THEN MkArgs("ListTemplates", <<>>, <<>>, <<>>)
                    ELSE IF Len(rest_args) = 2 THEN
                        IF is_utf8(rest_args[1])
                        THEN MkArgs("New", rest_args[1], rest_args[2], <<>>)
                        ELSE ArgsErr("Cannot convert template to utf8 string")
                    ELSE ArgsErr("Invalid new call")
               [] is_cargo_command(command) ->
                    IF rest_args = <<>> THEN ArgsErr("Cargo commands require a target source file")
                    ELSE LET call == normalize(command, rest_args[1], Drop(rest_args, 2))
                         IN  into_args(call.command, call.target, call.args)
               [] OTHER -> ArgsErr("Unknown command")

(***************************************************************************)
(* execution_env                                                           *)
(***************************************************************************)
\* std::env::current_dir() of the run, and the cargo home directory
WorkingDirectory == <<"/", "w">>
CargoHome == <<"/", "h", "/", ".", "cargo">>

is_absolute(p) == p # <<>> /\ p[1] = "/"

\* Path::join: an absolute path replaces the base
join(base, p) ==
    IF is_absolute(p) THEN p
    ELSE IF base = <<>> THEN p
    ELSE IF p = <<>> THEN base
    ELSE IF base[Len(base)] = "/" THEN base \o p
    ELSE base \o <<"/">> \o p

\* the components with every ".." resolved against the component before it
RECURSIVE resolve_parents(_, _)
resolve_parents(done, todo) ==
    IF todo = <<>> THEN done
    ELSE IF Head(todo) = <<".", ".">>
         THEN resolve_parents(Take(done, Len(done) - 1), Tail(todo))
         ELSE resolve_parents(Append(done, Head(todo)), Tail(todo))

RECURSIVE from_components(_)
from_components(cs) ==
    IF cs = <<>> THEN <<>> ELSE <<"/">> \o Head(cs) \o from_components(Tail(cs))

\* the canonical form of an absolute path in a file system without links
canonical(p) ==
    LET cs == resolve_parents(<<>>, components(p))
    IN  IF cs = <<>> THEN <<"/">> ELSE from_components(cs)

\* Result<PathBuf>
PathOk(p) == [ok |-> TRUE, path |-> p]
PathErr == [ok |-> FALSE, path |-> <<>>]

\* the two implementations of trait ExecutionEnv; existing is the set of
\* canonical paths the file system holds
StdExecutionEnv(existing) ==
    [kind |-> "Std", working_directory |-> WorkingDirectory,
     cargo_directory |-> CargoHome, existing |-> existing]

\* LocalEnv::from_env
LocalEnv(env) == [env EXCEPT !.kind = "Local"]

\* ExecutionEnv::get_cargo_home_dir
get_cargo_home_dir(env) == env.cargo_directory

\* StdExecutionEnv::normalize without the join with the working directory
env_normalize_no_join(env, path) ==
    IF env.kind = "Local" THEN PathOk(path)
    ELSE IF canonical(path) \in env.existing THEN PathOk(canonical(path))
    ELSE PathErr

\* ExecutionEnv::normalize: StdExecutionEnv joins the working directory and
\* canonicalizes, which fails for a path that does not exist; LocalEnv
\* returns the path as it is
env_normalize(env, path) ==
    IF env.kind = "Local" THEN PathOk(path)
    ELSE LET p == join(env.working_directory, path)
         IN  IF canonical(p) \in env.existing THEN PathOk(canonical(p)) ELSE PathErr

\* Path::parent().is_some(), and Path::parent
has_parent(p) == components(p) # <<>>

parent(p) ==
    LET cs == components(p)
        front == Take(cs, Len(cs) - 1)
    IN  IF is_absolute(p) THEN (IF front = <<>> THEN <<"/">> ELSE from_components(front))
        ELSE IF front = <<>> THEN <<>> ELSE Drop(from_components(front), 2)

(***************************************************************************)
(* manifest_normalization; every step returns Result<()>, here the table   *)
(* it leaves behind with ok = TRUE, or ok = FALSE                          *)
(***************************************************************************)
Done(root) == [ok |-> TRUE, root |-> root]
Failed(root) == [ok |-> FALSE, root |-> root]

\* an insert that replaces the value of a key that is there
insert_always(tab, k, x) == insert(tab, k, x)

\* if !table.contains_key(key) { table.insert(key, value) }
insert_if_missing(tab, k, x) == IF ~contains_key(tab, k) THEN insert(tab, k, x) ELSE tab

\* strip_custom_section that leaves the section in place
strip_custom_section_noop(root) == root

\* fn strip_custom_section
strip_custom_section(root) == remove(root, "cargo-wop")

\* fn ensure_valid_package
ensure_valid_package(root, name) ==
    LET defaults(package) ==
            insert_if_missing(
                insert_if_missing(
                    insert_if_missing(package, "name", VString(name)),
                    "version", VString(<<"0", ".", "1", ".", "0">>)),
                "edition", VString(<<"2018">>))
        check(root1) ==
            IF ~is_table(root1["package"]) THEN Failed(root1)
            ELSE Done(insert(root1, "package", VTable(defaults(root1["package"].v))))
    IN  check(insert_if_missing(root, "package", EmptyTable))

\* ensure_at_least_a_single_target that takes an empty bin array for a target
ensure_a_target_unless_bin_key(root) ==
    IF contains_key(root, "bin") /\ ~is_array(root["bin"]) THEN Failed(root)
    ELSE IF contains_key(root, "lib") \/ contains_key(root, "bin") THEN Done(root)
    ELSE Done(insert(root, "bin", VArray(<<EmptyTable>>)))

\* fn ensure_at_least_a_single_target
ensure_at_least_a_single_target(root) ==
    IF contains_key(root, "bin") /\ ~is_array(root["bin"]) THEN Failed(root)
    ELSE LET has_single_bin == contains_key(root, "bin") /\ root["bin"].v # <<>>
             has_definition == contains_key(root, "lib") \/ has_single_bin
         IN  IF has_definition THEN Done(root)
             ELSE Done(insert(root, "bin", VArray(<<EmptyTable>>)))

\* fn patch_target
patch_target(target, path, name, env) ==
    LET patch(normed) ==
            IF ~normed.ok \/ ~is_utf8(normed.path) THEN [ok |-> FALSE, val |-> target]
            ELSE IF ~is_table(target) THEN [ok |-> FALSE, val |-> target]
            ELSE [ok |-> TRUE,
                  val |-> VTable(insert_if_missing(
                                    insert(target.v, "path", VString(normed.path)),
                                    "name", VString(name)))]
    IN  patch(env_normalize(env, path))

\* fn patch_all_targets: the lib target, then every bin target
patch_all_targets(root, path, name, env) ==
    LET bins(root1, patched) ==
            IF \E i \in DOMAIN patched : ~patched[i].ok THEN Failed(root1)
            ELSE Done(insert(root1, "bin", VArray([i \in DOMAIN patched |-> patched[i].val])))
        bin(root1) ==
            IF ~contains_key(root1, "bin") THEN Done(root1)
            ELSE IF ~is_array(root1["bin"]) THEN Failed(root1)
            ELSE bins(root1, [i \in 1..Len(root1["bin"].v) |->
                                patch_target(root1["bin"].v[i], path, name, env)])
        lib(patched) ==
            IF ~patched.ok THEN Failed(root) ELSE bin(insert(root, "lib", patched.val))
    IN  IF contains_key(root, "lib") THEN lib(patch_target(root["lib"], path, name, env))
        ELSE bin(root)

\* const PATH_NORMALIZATION: the empty segment stands for every element of an
\* array or every value of a table
PATH_NORMALIZATION ==
    << <<"lib", "path">>,
       <<"bin", "", "path">>,
       <<"example", "", "path">>,
       <<"test", "", "path">>,
       <<"bench", "", "path">>,
       <<"package", "build">>,
       <<"dependencies", "", "path">>,
       <<"dev-dependencies", "", "path">>,
       <<"build-dependencies", "", "path">>,
       <<"patch", "", "", "path">>,
       <<"target", "", "dependencies", "", "path">> >>

\* _normalize_table_item that resolves the path against the working directory
\* instead of the directory of the script
_normalize_table_item_no_join(current, project_source_path, env, key) ==
    LET set(normed) ==
            IF ~normed.ok \/ ~is_utf8(normed.path)
            THEN [ok |-> FALSE, val |-> VTable(current)]
            ELSE [ok |-> TRUE, val |-> VTable(insert(current, key, VString(normed.path)))]
    IN  IF ~contains_key(current, key) THEN [ok |-> TRUE, val |-> VTable(current)]
        ELSE IF ~is_str(current[key]) THEN [ok |-> FALSE, val |-> VTable(current)]
        ELSE set(env_normalize(env, current[key].v))

\* fn _normalize_table_item
_normalize_table_item(current, project_source_path, env, key) ==
    LET set(normed) ==
            IF ~normed.ok \/ ~is_utf8(normed.path)
            THEN [ok |-> FALSE, val |-> VTable(current)]
            ELSE [ok |-> TRUE, val |-> VTable(insert(current, key, VString(normed.path)))]
    IN  IF ~contains_key(current, key) THEN [ok |-> TRUE, val |-> VTable(current)]
        ELSE IF ~is_str(current[key]) THEN [ok |-> FALSE, val |-> VTable(current)]
        ELSE set(env_normalize(env, join(project_source_path, current[key].v)))

\* _normalize_paths that fails for a value that is no table where the table
\* with the path field is expected
RECURSIVE _normalize_paths_strict(_, _, _, _, _)
_normalize_paths_strict(current, project_source_path, env, path, depth) ==
    IF depth = Len(path) THEN
        IF ~is_table(current) THEN [ok |-> FALSE, val |-> current]
        ELSE _normalize_table_item(current.v, project_source_path, env, path[depth])
    ELSE IF is_array(current) THEN
        IF path[depth] # "" THEN [ok |-> FALSE, val |-> current]
        ELSE LET items == [i \in 1..Len(current.v) |->
                            _normalize_paths_strict(current.v[i], project_source_path, env,
                                                    path, depth + 1)]
             IN  [ok |-> \A i \in 1..Len(current.v) : items[i].ok,
                  val |-> VArray([i \in 1..Len(current.v) |-> items[i].val])]
    ELSE IF is_table(current) THEN
        IF path[depth] = "" THEN
            LET items == [k \in DOMAIN current.v |->
                            _normalize_paths_strict(current.v[k], project_source_path, env,
                                                    path, depth + 1)]
            IN  [ok |-> \A k \in DOMAIN current.v : items[k].ok,
                 val |-> VTable([k \in DOMAIN current.v |-> items[k].val])]
        ELSE IF contains_key(current.v, path[depth]) THEN
            LET item == _normalize_paths_strict(current.v[path[depth]],
                                                project_source_path, env, path, depth + 1)
            IN  [ok |-> item.ok, val |-> VTable(insert(current.v, path[depth], item.val))]
        ELSE [ok |-> TRUE, val |-> current]
    ELSE [ok |-> FALSE, val |-> current]

\* fn _normalize_paths (depth counts from 1 here: path[depth] is the segment
\* the source calls path[depth])
RECURSIVE _normalize_paths(_, _, _, _, _)
_normalize_paths(current, project_source_path, env, path, depth) ==
    IF depth = Len(path) THEN
        IF ~is_table(current) THEN [ok |-> TRUE, val |-> current]
        ELSE _normalize_table_item(current.v, project_source_path, env, path[depth])
    ELSE IF is_array(current) THEN
        IF path[depth] # "" THEN [ok |-> FALSE, val |-> current]
        ELSE LET items == [i \in 1..Len(current.v) |->
                            _normalize_paths(current.v[i], project_source_path, env,
                                             path, depth + 1)]
             IN  [ok |-> \A i \in 1..Len(current.v) : items[i].ok,
                  val |-> VArray([i \in 1..Len(current.v) |-> items[i].val])]
    ELSE IF is_table(current) THEN
        IF path[depth] = "" THEN
            LET items == [k \in DOMAIN current.v |->
                            _normalize_paths(current.v[k], project_source_path, env,
                                             path, depth + 1)]
            IN  [ok |-> \A k \in DOMAIN current.v : items[k].ok,
                 val |-> VTable([k \in DOMAIN current.v |-> items[k].val])]
        ELSE IF contains_key(current.v, path[depth]) THEN
            LET item == _normalize_paths(current.v[path[depth]], project_source_path,
                                         env, path, depth + 1)
            IN  [ok |-> item.ok, val |-> VTable(insert(current.v, path[depth], item.val))]
        ELSE [ok |-> TRUE, val |-> current]
    ELSE [ok |-> FALSE, val |-> current]

\* the loop of normalize_paths from row i of PATH_NORMALIZATION on
RECURSIVE normalize_paths_from(_, _, _, _)
normalize_paths_from(root, project_source_path, env, i) ==
    LET path == PATH_NORMALIZATION[i]
        next(child) ==
            IF ~child.ok THEN Failed(root)
            ELSE normalize_paths_from(insert(root, path[1], child.val),
                                      project_source_path, env, i + 1)
    IN  IF i > Len(PATH_NORMALIZATION) THEN Done(root)
        ELSE IF ~contains_key(root, path[1])
        THEN normalize_paths_from(root, project_source_path, env, i + 1)
        ELSE next(_normalize_paths(root[path[1]], project_source_path, env, path, 2))

\* fn normalize_paths
normalize_paths(root, project_source_path, env) ==
    normalize_paths_from(root, project_source_path, env, 1)

\* pub fn normalize_manifest: [ok, root]; every step runs on what the step
\* before it left behind, and an Err ends the function
normalize_manifest(manifest, target_path, env) ==
    LET paths(patched) ==
            IF ~patched.ok THEN patched
            ELSE normalize_paths(patched.root, parent(target_path), env)
        targets(targeted) ==
            IF ~targeted.ok THEN targeted
            ELSE paths(patch_all_targets(targeted.root, target_path,
                                         file_stem(target_path), env))
        single_target(packaged) ==
            IF ~packaged.ok THEN packaged
            ELSE targets(ensure_at_least_a_single_target(packaged.root))
    IN  IF ~has_parent(target_path) \/ ~has_file_name(target_path)
           \/ ~is_utf8(file_stem(target_path))
        THEN Failed(manifest)
        ELSE single_target(ensure_valid_package(strip_custom_section(manifest),
                                                file_stem(target_path)))

(***************************************************************************)
(* execution: the project directory, the options, the default action       *)
(***************************************************************************)
\* fn hash_path: the first 8 hex digits of the SHA-1 of the path string, an
\* uninterpreted function of the path (collisions are not modelled)
hash_path(path) == [sha1_8 |-> path]

\* fn find_cache_dir
find_cache_dir(env) == join(get_cargo_home_dir(env), <<"wop-cache">>)

\* find_project_dir that names the directory after the path as it was given
find_project_dir_as_given(source, env) ==
    LET normed == env_normalize(env, source)
    IN  IF ~normed.ok \/ ~has_file_name(normed.path)
        THEN [ok |-> FALSE, dir |-> [cache |-> <<>>, stem |-> <<>>, hash |-> hash_path(<<>>)]]
        ELSE [ok |-> TRUE,
              dir |-> [cache |-> find_cache_dir(env), stem |-> file_stem(source),
                       hash |-> hash_path(source)]]

\* fn find_project_dir: {cache dir}/{stem}-{hash}, kept as its three parts
find_project_dir(source, env) ==
    LET normed == env_normalize(env, source)
    IN  IF ~normed.ok \/ ~has_file_name(normed.path)
        THEN [ok |-> FALSE, dir |-> [cache |-> <<>>, stem |-> <<>>, hash |-> hash_path(<<>>)]]
        ELSE [ok |-> TRUE,
              dir |-> [cache |-> find_cache_dir(env), stem |-> file_stem(normed.path),
                       hash |-> hash_path(normed.path)]]

\* struct ProjectOptions; default_action is an Option
DefaultOptions == [filter |-> <<>>, default_action |-> [some |-> FALSE, v |-> <<>>]]

OptionsOk(o) == [ok |-> TRUE, options |-> o]
OptionsErr == [ok |-> FALSE, options |-> DefaultOptions]

\* fn parse_custom_section; the filter is a function from source file names
\* (strings, the keys of the table) to destination file names
parse_custom_section(manifest) ==
    IF ~contains_key(manifest, "cargo-wop") THEN OptionsOk(DefaultOptions)
    ELSE LET section == manifest["cargo-wop"]
             \* Value::get on a value that is no table is None
             has(k) == is_table(section) /\ contains_key(section.v, k)
             filter == section.v["filter"]
             default_action == section.v["default-action"]
         IN  IF has("filter") /\ ~is_table(filter) THEN OptionsErr
             ELSE IF has("filter") /\ \E src \in DOMAIN filter.v : ~is_str(filter.v[src])
             THEN OptionsErr
             ELSE IF has("default-action") /\ ~is_array(default_action) THEN OptionsErr
             ELSE IF has("default-action")
                     /\ \E i \in 1..Len(default_action.v) : ~is_str(default_action.v[i])
             THEN OptionsErr
             ELSE OptionsOk(
                    [filter |-> IF has("filter")
                                THEN [src \in DOMAIN filter.v |-> filter.v[src].v]
                                ELSE <<>>,
                     default_action |->
                        IF has("default-action")
                        THEN [some |-> TRUE,
                              v |-> [i \in 1..Len(default_action.v) |-> default_action.v[i].v]]
                        ELSE [some |-> FALSE, v |-> <<>>]])

\* Vec::insert(index, element); it panics when index > len
InsertAt(s, index, x) == Take(s, index - 1) \o <<x>> \o Drop(s, index)

\* fn merge_default_args: [panic, args]; full_args.insert(2, target) panics
\* when full_args holds only "wop"
merge_default_args(call, default_action) ==
    LET full_args == <<(<<"wop">>)>>
                     \o (IF default_action.some THEN default_action.v ELSE <<(<<"run">>)>>)
                     \o call.args
    IN  IF Len(full_args) < 2 THEN [panic |-> TRUE, args |-> full_args]
        ELSE [panic |-> FALSE, args |-> InsertAt(full_args, 3, call.target)]

\* toml::to_string: the text of a manifest, identified by the document it
\* encodes
to_string(doc) == [toml |-> doc]

\* struct ProjectInfo
NoProjectInfo ==
    [name |-> <<>>, manifest_dir |-> [cache |-> <<>>, stem |-> <<>>, hash |-> hash_path(<<>>)],
     options |-> DefaultOptions]

\* the script file as File::open and the reader see it
NoFile == [exists |-> FALSE, lines |-> <<>>]
FileOf(lines) == [exists |-> TRUE, lines |-> lines]

\* fn prepare_manifest_dir up to "perform any faillible operations": the
\* ProjectInfo and the manifest text to write, or an error.  file is the
\* script as it is on disk.
prepare_manifest(target, env, file) ==
    LET failed == [ok |-> FALSE, info |-> NoProjectInfo, text |-> to_string(<<>>)]
        write(manifest_dir, options, normed_manifest) ==
            IF ~normed_manifest.ok THEN failed
            ELSE [ok |-> TRUE,
                  info |-> [name |-> file_stem(target), manifest_dir |-> manifest_dir,
                            options |-> options],
                  text |-> to_string(normed_manifest.root)]
        normed(manifest_dir, manifest, custom) ==
            IF ~custom.ok THEN failed
            ELSE write(manifest_dir, custom.options, normalize_manifest(manifest, target, env))
        parsed(manifest_dir, manifest) ==
            IF manifest.tag # "Ok" THEN failed
            ELSE normed(manifest_dir, manifest.doc, parse_custom_section(manifest.doc))
        found(project_dir) ==
            IF ~project_dir.ok THEN failed
            ELSE IF ~has_file_name(target) \/ ~is_utf8(file_stem(target)) THEN failed
            ELSE IF ~file.exists THEN failed
            ELSE parsed(project_dir.dir, parse_manifest(file.lines))
    IN  found(find_project_dir(target, env))

(***************************************************************************)
(* execution: build output, artifacts, templates                           *)
(***************************************************************************)
\* Option<T>
Some(x) == [some |-> TRUE, v |-> x]
None == [some |-> FALSE, v |-> <<>>]

\* one line of cargo's --message-format json output: json is whether the
\* line parses; reason, package_id and filenames are the fields as
\* JsonValue::as_str / as_array see them (None: missing or of another type);
\* a filename that is no string is the path <<NonUtf8>>
Event(reason, package_id, filenames) ==
    [json |-> TRUE, reason |-> reason, package_id |-> package_id, filenames |-> filenames]

\* value.get("reason").and_then(as_str) of a line whose reason is missing or
\* no string
NoReason == [some |-> FALSE, v |-> ""]

BadJson == [json |-> FALSE, reason |-> NoReason, package_id |-> None, filenames |-> None]

\* parse_build_output that matches the project name as a bare prefix
is_own_package_bare_prefix(package_id, name) == starts_with(package_id, name)

\* package_id.starts_with(&format!("{} ", project_info.name))
is_own_package(package_id, name) == starts_with(package_id, name \o <<" ">>)

\* fn parse_build_output: [ok, artifacts]
RECURSIVE parse_build_output_from(_, _, _)
parse_build_output_from(output, name, result) ==
    IF output = <<>> THEN [ok |-> TRUE, artifacts |-> result]
    ELSE LET value == Head(output)
             rest == Tail(output)
         IN  IF ~value.json \/ ~value.reason.some THEN [ok |-> FALSE, artifacts |-> result]
             ELSE IF value.reason.v # "compiler-artifact"
             THEN parse_build_output_from(rest, name, result)
             ELSE IF ~value.package_id.some THEN [ok |-> FALSE, artifacts |-> result]
             ELSE IF ~is_own_package(value.package_id.v, name)
             THEN parse_build_output_from(rest, name, result)
             ELSE IF ~value.filenames.some THEN [ok |-> FALSE, artifacts |-> result]
             ELSE IF \E i \in 1..Len(value.filenames.v) : value.filenames.v[i] = <<NonUtf8>>
             THEN [ok |-> FALSE, artifacts |-> result]
             ELSE parse_build_output_from(rest, name, result \o value.filenames.v)

parse_build_output(output, project_info) ==
    parse_build_output_from(output, project_info.name, <<>>)

\* OsStr::to_str of a file name that is UTF-8: the string its tokens spell,
\* which is what the keys of the filter are
RECURSIVE to_str(_)
to_str(name) == IF name = <<>> THEN "" ELSE Head(name) \o to_str(Tail(name))

\* src_file_name.to_str() is Some and options.filter.get finds it
filter_has(filter, src_file_name) ==
    is_utf8(src_file_name) /\ to_str(src_file_name) \in DOMAIN filter

\* copy_build_artifacts with a filter that is never consulted
dst_file_name_unfiltered(filter, src_file_name) == src_file_name

\* the destination file name of copy_build_artifacts
dst_file_name(filter, src_file_name) ==
    IF filter_has(filter, src_file_name) THEN filter[to_str(src_file_name)]
    ELSE src_file_name

\* fs::copy(src, to.join(dst)): the directory gets (or replaces) the file
\* dst, holding what src holds
fs_copy(dir, src, dst) == insert(dir, dst, [copy_of |-> src])

\* fn copy_build_artifacts: [ok, dir], dir the destination directory after
\* the copies made before the first error
RECURSIVE copy_build_artifacts(_, _, _)
copy_build_artifacts(from, dir, options) ==
    IF from = <<>> THEN [ok |-> TRUE, dir |-> dir]
    ELSE LET src == Head(from)
         IN  IF ~has_file_name(src) THEN [ok |-> FALSE, dir |-> dir]
             ELSE LET dst == dst_file_name(options.filter, file_name(src))
                  IN  IF dst = <<>> THEN copy_build_artifacts(Tail(from), dir, options)
                      ELSE copy_build_artifacts(Tail(from), fs_copy(dir, src, dst), options)

\* text::TEMPLATE_BIN .. TEMPLATE_WASM with %NAME% replaced, as script lines:
\* the leading comment, with its usage block and its descriptor block, then
\* code
TemplateHead(title) == << <<"//!", " ", title>>, <<"//!">> >>

TemplateUsage ==
    << <<"//!", " ", "This">>, <<"//!">>, <<"//!", " ", "~~~", "bash">>,
       <<"//!", " ", "cargo", " ", "wop">>, <<"//!", " ", "~~~">>, <<"//!">> >>

TemplateLib(dependency, custom) ==
    << ManifestStartPrefix, Commented(<<"[lib]">>), Commented(<<"name='foo'">>),
       Commented(<<"crate-type=['cdylib']">>), <<"//!">>,
       Commented(<<"[dependencies]">>), Commented(dependency), <<"//!">>,
       Commented(<<"[cargo-wop]">>) >>
    \o custom \o << ManifestEndPrefix >>

TemplateLines(template) ==
    CASE template = <<"--bin">> ->
            TemplateHead("Executable")
            \o << ManifestStartPrefix, Commented(<<"[dependencies]">>),
                  Commented(<<"#", "include">>), ManifestEndPrefix, <<>>, <<"fn">> >>
      [] template = <<"--lib">> ->
            TemplateHead("Shared library") \o TemplateUsage
            \o TemplateLib(<<"#", "include">>,
                           << Commented(<<"default-action=['build']">>) >>)
            \o << <<>>, <<"fn">> >>
      [] template = <<"--pymodule">> ->
            TemplateHead("Python extension module") \o TemplateUsage
            \o TemplateLib(<<"pyo3={version='0.13',features=['extension-module']}">>,
                           << Commented(<<"default-action=['build']">>),
                              Commented(<<"filter={'libfoo.so'='foo.so'}">>) >>)
            \o << <<"fn">> >>
      [] template = <<"--wasm">> ->
            TemplateHead("WASM module") \o TemplateUsage
            \o TemplateLib(<<"#", "include">>,
                           << Commented(<<"default-action=['build','--target','wasm32-unknown-unknown']">>) >>)
            \o << <<>>, <<"fn">> >>

Templates == {<<"--bin">>, <<"--lib">>, <<"--pymodule">>, <<"--wasm">>}

\* fn render_new_file: [ok, source]; the model's targets all have the stem foo
render_new_file(template, target) ==
    IF template \notin Templates THEN [ok |-> FALSE, source |-> <<>>]
    ELSE IF ~has_file_name(target) \/ ~is_utf8(file_stem(target))
    THEN [ok |-> FALSE, source |-> <<>>]
    ELSE [ok |-> TRUE, source |-> TemplateLines(template)]

(***************************************************************************)
(* execution: the file system and prepare_manifest_dir                     *)
(***************************************************************************)
\* the directories of the file system: the working directory, a dependency
\* directory and a directory of scripts
Directories == {WorkingDirectory, <<"/", "w", "/", "d">>, <<"/", "w", "/", "sub">>}

\* where a path of the command line is on disk
on_disk(path) == canonical(join(WorkingDirectory, path))

\* the canonical paths the file system holds; files is the function from the
\* paths of the files to what they hold
existing(files) == Directories \cup DOMAIN files

\* Path::exists
exists(files, path) == on_disk(path) \in existing(files)

\* a script on disk
ScriptFile(lines) == [lines |-> lines]

\* File::open(target) and the reader over it; the targets of the model name
\* scripts or nothing
read_file(files, target) ==
    LET p == on_disk(target)
    IN  IF p \in DOMAIN files /\ "lines" \in DOMAIN files[p]
        THEN FileOf(files[p].lines) ELSE NoFile

CargoToml == <<"Cargo", ".", "toml">>

\* fs::create_dir_all: dirs is the function from the project directories
\* that exist to their files
create_dir_all(dirs, dir) == IF dir \in DOMAIN dirs THEN dirs ELSE insert(dirs, dir, <<>>)

\* fs::write that keeps a file that is already there
fs_write_if_absent(dir, name, text) == IF name \in DOMAIN dir THEN dir ELSE insert(dir, name, text)

\* fs::write: the file is created or truncated, then holds text
fs_write(dir, name, text) == insert(dir, name, text)

\* what a failed I/O step of the model is: none fails, create_dir_all fails,
\* the file cannot be created, or the write fails after the file was truncated
IoOutcomes == {"ok", "create_dir_all", "create", "write"}

\* prepare_manifest_dir that trusts a manifest file that is already there
prepare_manifest_dir_cache_hit(target, env, fs, dirs, io) ==
    LET failed(after) == [ok |-> FALSE, info |-> NoProjectInfo, dirs |-> after]
        write(p, dir, made) ==
            IF io = "create" THEN failed(made)
            ELSE IF io = "write"
            THEN failed([made EXCEPT ![dir] = fs_write(@, CargoToml, to_string(<<>>))])
            ELSE [ok |-> TRUE, info |-> p.info,
                  dirs |-> [made EXCEPT ![dir] = fs_write_if_absent(@, CargoToml, p.text)]]
        create(p) ==
            IF ~p.ok \/ io = "create_dir_all" THEN failed(dirs)
            ELSE write(p, p.info.manifest_dir, create_dir_all(dirs, p.info.manifest_dir))
    IN  create(prepare_manifest(target, env, read_file(fs, target)))

\* prepare_manifest_dir that creates the project directory before it reads
\* the descriptor
prepare_manifest_dir_create_first(target, env, fs, dirs, io) ==
    LET failed(after) == [ok |-> FALSE, info |-> NoProjectInfo, dirs |-> after]
        write(p, dir, made) ==
            IF io = "create" THEN failed(made)
            ELSE IF io = "write"
            THEN failed([made EXCEPT ![dir] = fs_write(@, CargoToml, to_string(<<>>))])
            ELSE [ok |-> TRUE, info |-> p.info,
                  dirs |-> [made EXCEPT ![dir] = fs_write(@, CargoToml, p.text)]]
        create(found, p) ==
            IF ~found.ok \/ io = "create_dir_all" THEN failed(dirs)
            ELSE IF ~p.ok THEN failed(create_dir_all(dirs, found.dir))
            ELSE write(p, p.info.manifest_dir, create_dir_all(dirs, p.info.manifest_dir))
    IN  create(find_project_dir(target, env), prepare_manifest(target, env, read_file(fs, target)))

\* fn prepare_manifest_dir: [ok, info, dirs], dirs the project directories
\* it leaves behind
prepare_manifest_dir(target, env, fs, dirs, io) ==
    LET failed(after) == [ok |-> FALSE, info |-> NoProjectInfo, dirs |-> after]
        write(p, dir, made) ==
            IF io = "create" THEN failed(made)
            ELSE IF io = "write"
            THEN failed([made EXCEPT ![dir] = fs_write(@, CargoToml, to_string(<<>>))])
            ELSE [ok |-> TRUE, info |-> p.info,
                  dirs |-> [made EXCEPT ![dir] = fs_write(@, CargoToml, p.text)]]
        create(p) ==
            IF ~p.ok \/ io = "create_dir_all" THEN failed(dirs)
            ELSE write(p, p.info.manifest_dir, create_dir_all(dirs, p.info.manifest_dir))
    IN  create(prepare_manifest(target, env, read_file(fs, target)))

\* ExitStatus::code(): Some(code) of a process that exited, None of one
\* that a signal ended
Exited(c) == [some |-> TRUE, v |-> c]
Signalled == [some |-> FALSE, v |-> 0]

\* Option<i32>::unwrap_or_default
unwrap_or_default(code) == IF code.some THEN code.v ELSE 0

\* assert!(!matches!(args, Args::DefaultAction(_))) that never fires
recursion_never_detected(new_args) == FALSE

\* the condition under which the assert! of the DefaultAction branch fires
recursion_detected(new_args) == new_args.variant = "DefaultAction"

(***************************************************************************)
(* State                                                                   *)
(***************************************************************************)
VARIABLES
    reader,         \* SpecParse: the script text handed to parse_manifest
    parse_result,   \* SpecParse: what parse_manifest returned, NotParsed before
    argv,           \* the argument list handed to parse_args (after skip(1))
    resolved,       \* SpecArgs: what parse_args returned, NotResolved before
    norm,           \* SpecNorm: the arguments of normalize_manifest and what it returned
    build,          \* SpecBuild: a build's output and filter, and what became of them
    files,          \* the files under the working directory, by canonical path
    cache,          \* the project directories under wop-cache, with their files
    pc,             \* where the process is: idle, execute_args, prepared, built, exited
    args,           \* the Args execute_args was called with
    project_info,   \* the ProjectInfo of the last prepare_manifest_dir of the run
    da_entries,     \* how often the run entered the DefaultAction branch
    depth,          \* how many calls of execute_args the run made
    spawned,        \* the toolchain subprocesses of the run, in order
    exit,           \* how the process ended
    last_read,      \* the script the last prepare_manifest_dir of the run read
    previous,       \* the manifest file before the last prepare_manifest_dir
    stdout          \* what the run printed, in order

unitvars == <<reader, parse_result, resolved, norm, build>>
diskvars == <<files, cache>>
runvars == <<pc, args, project_info, da_entries, depth, spawned, exit, last_read, previous,
             stdout>>
vars == <<reader, parse_result, argv, resolved, norm, build, files, cache, pc, args,
          project_info, da_entries, depth, spawned, exit, last_read, previous, stdout>>

NotParsed == [tag |-> "None", block |-> FALSE, raw |-> <<>>, doc |-> <<>>, err |-> ""]

NotResolved ==
    [tag |-> "None", variant |-> "", command |-> <<>>, target |-> <<>>, args |-> <<>>,
     err |-> ""]

\* nothing was handed to normalize_manifest, nothing was built
NoNorm == [tag |-> "None"]
NoBuild == [tag |-> "None"]

NotExited == [kind |-> "none", code |-> 0, msg |-> ""]
NothingRead == [target |-> <<>>, file |-> NoFile]
NoPrevious == [exists |-> FALSE, text |-> to_string(<<>>)]

\* no process runs
Idle ==
    /\ pc = "idle"
    /\ args = NotResolved
    /\ project_info = NoProjectInfo
    /\ da_entries = 0
    /\ depth = 0
    /\ spawned = <<>>
    /\ exit = NotExited
    /\ last_read = NothingRead
    /\ previous = NoPrevious
    /\ stdout = <<>>

(***************************************************************************)
(* SpecParse: parse_manifest applied to every script of up to MaxLines     *)
(* lines over ScriptLines                                                  *)
(***************************************************************************)
\* lines of a descriptor: blank, a table header, a key, an indented key
DescriptorLines == {<<>>, <<"[package]">>, <<"name='x'">>, <<" ", "name='x'">>}

ScriptLines ==
    {ManifestStartPrefix, ManifestEndPrefix, <<"//!", " ", "~~~", "bash">>,
     <<"//!">>, <<"fn">>, <<>>}
    \cup {Commented(d) : d \in DescriptorLines}

InitParse ==
    /\ reader \in SeqsUpTo(ScriptLines, MaxLines)
    /\ parse_result = NotParsed
    /\ argv = <<>>
    /\ resolved = NotResolved
    /\ norm = NoNorm
    /\ build = NoBuild
    /\ files = <<>>
    /\ cache = <<>>
    /\ Idle

ParseManifest ==
    /\ parse_result = NotParsed
    /\ parse_result' = parse_manifest(reader)
    /\ UNCHANGED <<reader, argv, resolved, norm, build, diskvars, runvars>>

NextParse == ParseManifest

SpecParse == InitParse /\ [][NextParse]_vars

(***************************************************************************)
(* SpecArgs: parse_args applied to argument lists                          *)
(***************************************************************************)
OtherKeywords == {"manifest", "write-manifest", "help", "--help", "new"}

SecondArgs ==
    {<<k>> : k \in CargoCommands \cup OtherKeywords}
    \cup {<<"frobnicate">>, <<NonUtf8>>, <<"foo", ".", "rs">>, <<"build", ".", "rs">>,
          <<".", "hidden">>, <<"a", ".", "d", "/", "run">>}

RestArgs == {<<"foo", ".", "rs">>, <<"--">>, <<"--verbose">>, <<"arg">>}

ArgLists ==
    {<<>>, <<(<<"wop">>)>>, <<(<<"cargo">>)>>, <<(<<"cargo">>), (<<"foo", ".", "rs">>)>>}
    \cup {<<(<<"wop">>), s>> \o r : s \in SecondArgs, r \in SeqsUpTo(RestArgs, MaxRest)}

InitArgs ==
    /\ argv \in ArgLists
    /\ resolved = NotResolved
    /\ reader = <<>>
    /\ parse_result = NotParsed
    /\ norm = NoNorm
    /\ build = NoBuild
    /\ files = <<>>
    /\ cache = <<>>
    /\ Idle

ParseArgs ==
    /\ resolved = NotResolved
    /\ resolved' = parse_args(argv)
    /\ UNCHANGED <<reader, parse_result, argv, norm, build, diskvars, runvars>>

NextArgs == ParseArgs

SpecArgs == InitArgs /\ [][NextArgs]_vars

(***************************************************************************)
(* SpecNorm: normalize_manifest applied to a descriptor, a script path and *)
(* an execution environment, and then once more to what it returned        *)
(***************************************************************************)
\* a table with the one key k, or without it
Section(k, values) == {<<>>} \cup {k :> x : x \in values}

\* [package]: empty; a name; every field the normalizer knows and one it does
\* not; a build script; not a table
PackageSections ==
    { EmptyTable,
      VTable("name" :> VString(<<"x">>)),
      VTable("name" :> VString(<<"x">>) @@ "version" :> VString(<<"1", ".", "0", ".", "0">>)
             @@ "edition" :> VString(<<"2021">>) @@ "description" :> VString(<<"text">>)),
      VTable("build" :> VString(<<"p">>)),
      VString(<<"x">>) }

\* a target: empty, with a path, with a name
TargetEntries ==
    { EmptyTable, VTable("path" :> VString(<<"p">>)), VTable("name" :> VString(<<"y">>)) }

\* [lib]
LibSections == TargetEntries

\* [[bin]]: up to MaxBins entries, or a value that is no array
BinSections == {VArray(a) : a \in SeqsUpTo(TargetEntries, MaxBins)} \cup {VString(<<"p">>)}

\* [dependencies]: by a path that exists, by a path that does not, by version
DependenciesSections ==
    { VTable("dep" :> VTable("path" :> VString(<<"d">>))),
      VTable("gone" :> VTable("path" :> VString(<<"gone">>))),
      VTable("dep" :> VString(<<"1.0">>)) }

\* [cargo-wop]
CustomSections ==
    { VTable("default-action" :> VArray(<< VString(<<"build">>) >>)
             @@ "filter" :> VTable("a.out" :> VString(<<"b", ".", "out">>))) }

Manifests ==
    { p @@ l @@ b @@ d @@ c :
        p \in Section("package", PackageSections), l \in Section("lib", LibSections),
        b \in Section("bin", BinSections),
        d \in Section("dependencies", DependenciesSections),
        c \in Section("cargo-wop", CustomSections) }

\* the script, as the command line can name it
TargetPaths ==
    { <<"foo", ".", "rs">>, <<"sub", "/", "foo", ".", "rs">>, <<"/", "w", "/", "foo", ".", "rs">> }

\* the file system of SpecNorm: the scripts, the build scripts and the
\* dependency directories next to them exist
NormExisting ==
    Directories
    \cup { <<"/", "w", "/", "foo", ".", "rs">>, <<"/", "w", "/", "sub", "/", "foo", ".", "rs">>,
           <<"/", "w", "/", "p">>, <<"/", "w", "/", "sub", "/", "p">>,
           <<"/", "w", "/", "sub", "/", "d">> }

\* the execution environments the program has: StdExecutionEnv for the cache
\* and for manifest, LocalEnv for write-manifest
ShippedEnvs == {StdExecutionEnv(NormExisting), LocalEnv(StdExecutionEnv(NormExisting))}

NotNormalized == Failed(<<>>)

InitNorm ==
    /\ norm \in { [tag |-> "In", manifest |-> m, target_path |-> t, env |-> e,
                   once |-> NotNormalized, twice |-> NotNormalized] :
                  m \in Manifests, t \in TargetPaths, e \in ShippedEnvs }
    /\ build = NoBuild
    /\ reader = <<>>
    /\ parse_result = NotParsed
    /\ argv = <<>>
    /\ resolved = NotResolved
    /\ files = <<>>
    /\ cache = <<>>
    /\ Idle

\* normalize_manifest(manifest, target_path, env)
Normalize ==
    /\ norm.tag = "In"
    /\ norm' = [norm EXCEPT !.tag = "Once",
                            !.once = normalize_manifest(norm.manifest, norm.target_path,
                                                        norm.env)]
    /\ UNCHANGED <<reader, parse_result, argv, resolved, build, diskvars, runvars>>

\* normalize_manifest on the manifest the first call returned
NormalizeAgain ==
    /\ norm.tag = "Once"
    /\ norm.once.ok
    /\ norm' = [norm EXCEPT !.tag = "Twice",
                            !.twice = normalize_manifest(norm.once.root, norm.target_path,
                                                         norm.env)]
    /\ UNCHANGED <<reader, parse_result, argv, resolved, build, diskvars, runvars>>

NextNorm == Normalize \/ NormalizeAgain

SpecNorm == InitNorm /\ [][NextNorm]_vars

(***************************************************************************)
(* SpecPaths: normalize_paths applied to a document, the directory of the  *)
(* script and an execution environment                                     *)
(***************************************************************************)
\* a table with a path, a table without one, a string
WithPath(p) == VTable("path" :> VString(<<p>>))
WithoutPath == VTable("version" :> VString(<<"1.0">>))
Scalar == VString(<<"1.0">>)

\* [lib]
LibShapes == {WithPath("p"), WithoutPath, Scalar}

\* [[bin]]: an array of tables and strings, a table of tables, a string
BinShapes ==
    {VArray(a) : a \in SeqsUpTo({WithPath("p"), Scalar}, MaxBins)}
    \cup {VTable("x" :> WithPath("p")), Scalar}

\* [package]: with a build script, without one, with a build field that is
\* no string, a string
PackageShapes ==
    { VTable("build" :> VString(<<"p">>)), VTable("name" :> VString(<<"x">>)),
      VTable("build" :> VInteger(1)), Scalar }

\* [dependencies]: two by path; one by version and one by path; an array of
\* tables; a string; a number
DependenciesShapes ==
    { VTable("dep" :> WithPath("d") @@ "other" :> WithPath("p")),
      VTable("dep" :> Scalar @@ "other" :> WithPath("d")),
      VArray(<<WithPath("d"), WithPath("p")>>),
      Scalar,
      VInteger(1) }

\* [patch]: a registry with a crate by path; with a crate by version; a
\* registry that is a string
PatchShapes ==
    { VTable("crates-io" :> VTable("foo" :> WithPath("p"))),
      VTable("crates-io" :> VTable("foo" :> Scalar)),
      VTable("crates-io" :> Scalar) }

\* [target]: a platform with a dependency by path; with dependencies that
\* are a string; a platform that is a string
TargetShapes ==
    { VTable("cfg" :> VTable("dependencies" :> VTable("dep" :> WithPath("d")))),
      VTable("cfg" :> VTable("dependencies" :> Scalar)),
      VTable("cfg" :> Scalar) }

\* a section the traversal has no key-path for
FeaturesShapes == { VTable("path" :> VString(<<"p">>)) }

Roots ==
    { l @@ b @@ p @@ d @@ c @@ t @@ f :
        l \in Section("lib", LibShapes), b \in Section("bin", BinShapes),
        p \in Section("package", PackageShapes),
        d \in Section("dependencies", DependenciesShapes),
        c \in Section("patch", PatchShapes), t \in Section("target", TargetShapes),
        f \in {"features" :> x : x \in FeaturesShapes} }

InitPaths ==
    /\ norm \in { [tag |-> "Root", manifest |-> m, target_path |-> t, env |-> e,
                   once |-> NotNormalized, twice |-> NotNormalized] :
                  m \in Roots,
                  t \in {<<"foo", ".", "rs">>, <<"sub", "/", "foo", ".", "rs">>},
                  e \in ShippedEnvs }
    /\ build = NoBuild
    /\ reader = <<>>
    /\ parse_result = NotParsed
    /\ argv = <<>>
    /\ resolved = NotResolved
    /\ files = <<>>
    /\ cache = <<>>
    /\ Idle

\* normalize_paths(root, target_directory, env)
NormalizePaths ==
    /\ norm.tag = "Root"
    /\ norm' = [norm EXCEPT !.tag = "Rewritten",
                            !.once = normalize_paths(norm.manifest, parent(norm.target_path),
                                                     norm.env)]
    /\ UNCHANGED <<reader, parse_result, argv, resolved, build, diskvars, runvars>>

NextPaths == NormalizePaths

SpecPaths == InitPaths /\ [][NextPaths]_vars

(***************************************************************************)
(* SpecBuild: parse_build_output applied to the output of a build, and     *)
(* copy_build_artifacts applied to the artifacts it returned               *)
(***************************************************************************)
\* the package ids of the project foo, of a package whose name starts with
\* foo, and of a dependency
OwnPackage == <<"foo", " ", "0.1.0">>
LongerPackage == <<"foo", "d", " ", "1.0">>
OtherPackage == <<"dep", " ", "1.0">>

\* files of the target directory
Built(name) == <<"/", "t", "/", name, ".", "out">>

\* lines of build output: artifacts of the three packages; an artifact
\* without file names; another message about the project; the end of the
\* build; a line that is no JSON; a line without reason; an artifact
\* without package id; an artifact whose file names are no array; an
\* artifact whose path has no file name
BuildEvents ==
    { Event(Some("compiler-artifact"), Some(OwnPackage), Some(<<Built("a"), Built("b")>>)),
      Event(Some("compiler-artifact"), Some(OwnPackage), Some(<<Built("c")>>)),
      Event(Some("compiler-artifact"), Some(LongerPackage), Some(<<Built("d")>>)),
      Event(Some("compiler-artifact"), Some(OtherPackage), Some(<<Built("a")>>)),
      Event(Some("compiler-artifact"), Some(OwnPackage), Some(<<>>)),
      Event(Some("compiler-message"), Some(OwnPackage), Some(<<Built("e")>>)),
      Event(Some("build-finished"), None, None),
      BadJson,
      Event(NoReason, Some(OwnPackage), Some(<<Built("e")>>)),
      Event(Some("compiler-artifact"), None, Some(<<Built("e")>>)),
      Event(Some("compiler-artifact"), Some(OwnPackage), None),
      Event(Some("compiler-artifact"), Some(OwnPackage), Some(<< <<"/">> >>)) }

\* [cargo-wop] filter: none; a renames to z and c is dropped; a is copied
\* over c; b is dropped and a takes its name
Filters ==
    { <<>>,
      "a.out" :> <<"z", ".", "out">> @@ "c.out" :> <<>>,
      "a.out" :> <<"c", ".", "out">>,
      "b.out" :> <<>> @@ "a.out" :> <<"b", ".", "out">> }

\* ProjectInfo of the build
InfoOf(name, filter) ==
    [name |-> name, manifest_dir |-> NoProjectInfo.manifest_dir,
     options |-> [filter |-> filter, default_action |-> [some |-> FALSE, v |-> <<>>]]]

NotCollected == [ok |-> FALSE, artifacts |-> <<>>]
NotCopied == [ok |-> FALSE, dir |-> <<>>]

InitBuild ==
    /\ build \in { [tag |-> "Output", output |-> o, project_info |-> InfoOf(n, f),
                    parsed |-> NotCollected, copied |-> NotCopied] :
                   o \in SeqsUpTo(BuildEvents, MaxEvents),
                   n \in {<<"foo">>, <<"dep">>}, f \in Filters }
    /\ norm = NoNorm
    /\ reader = <<>>
    /\ parse_result = NotParsed
    /\ argv = <<>>
    /\ resolved = NotResolved
    /\ files = <<>>
    /\ cache = <<>>
    /\ Idle

\* parse_build_output(output, project_info)
ParseBuildOutput ==
    /\ build.tag = "Output"
    /\ build' = [build EXCEPT !.tag = "Parsed",
                              !.parsed = parse_build_output(build.output,
                                                            build.project_info)]
    /\ UNCHANGED <<reader, parse_result, argv, resolved, norm, diskvars, runvars>>

\* copy_build_artifacts(artifacts, to, options) into an empty directory
CopyBuildArtifacts ==
    /\ build.tag = "Parsed"
    /\ build.parsed.ok
    /\ build' = [build EXCEPT !.tag = "Copied",
                              !.copied = copy_build_artifacts(build.parsed.artifacts, <<>>,
                                                              build.project_info.options)]
    /\ UNCHANGED <<reader, parse_result, argv, resolved, norm, diskvars, runvars>>

NextBuild == ParseBuildOutput \/ CopyBuildArtifacts

SpecBuild == InitBuild /\ [][NextBuild]_vars

(***************************************************************************)
(* Spec: runs of the program, one after the other, over a file system in   *)
(* which the scripts are edited between the runs and between the calls of  *)
(* execute_args of a run                                                   *)
(***************************************************************************)
\* a script with the descriptor block D, then code
ScriptWith(D) ==
    <<ManifestStartPrefix>> \o [i \in 1..Len(D) |-> Commented(<<D[i]>>)]
    \o <<ManifestEndPrefix, <<"fn">>>>

\* what a script of the model holds: no block; a package name; a default
\* action that is a command, a script, empty, or no array; a dependency by
\* path; a dependency that is not on disk; a block that is not closed
ScriptContents ==
    { << <<"fn">> >>,
      ScriptWith(<<"[package]", "name='x'">>),
      ScriptWith(<<"[cargo-wop]", "default-action=['build']">>),
      ScriptWith(<<"[cargo-wop]", "default-action=['foo.rs']">>),
      ScriptWith(<<"[cargo-wop]", "default-action=[]">>),
      ScriptWith(<<"[cargo-wop]", "default-action='run'">>),
      ScriptWith(<<"[dependencies]", "dep={path='d'}">>),
      ScriptWith(<<"[dependencies]", "gone={path='gone'}">>),
      <<ManifestStartPrefix, Commented(<<"[package]">>)>> }

\* the scripts of the model, as the command line names them and on disk
Script == <<"foo", ".", "rs">>
ScriptPaths == {on_disk(Script)}

\* the command lines of the model (after skip(1))
Wop(rest) == <<(<<"wop">>)>> \o rest

CommandLines ==
    { Wop(<<>>), Wop(<< <<"frobnicate">>, Script >>),
      Wop(<<Script>>), Wop(<< Script, <<"arg">> >>),
      Wop(<< <<"run">>, Script >>), Wop(<< <<"run">>, on_disk(Script) >>),
      Wop(<< <<"build">>, Script >>),
      Wop(<< <<"install">>, Script >>),
      Wop(<< <<"manifest">>, Script >>), Wop(<< <<"write-manifest">>, Script >>),
      Wop(<< <<"help">> >>), Wop(<< <<"new">> >>),
      Wop(<< <<"new">>, <<"--bin">>, Script >>),
      Wop(<< <<"new">>, <<"--exe">>, Script >>) }

\* how a toolchain subprocess can end: it exits with a code, a signal ends
\* it, or it cannot be started
ExitCodes == {0, 101}

CargoOutcomes ==
    {[started |-> TRUE, code |-> Exited(c)] : c \in ExitCodes}
    \cup {[started |-> TRUE, code |-> Signalled], [started |-> FALSE, code |-> Signalled]}

\* what the toolchain reports with --message-format json: the artifacts a and
\* b of the package foo after one of a dependency food; a line that is no
\* JSON; nothing
Artifact(package_id, filenames) ==
    Event(Some("compiler-artifact"), Some(package_id), Some(filenames))

BuildOutputs ==
    { << Artifact(<<"foo", "d", " ", "1.0">>, << <<"/", "t", "/", "d">> >>),
         Artifact(<<"foo", " ", "0.1.0">>, << <<"/", "t", "/", "a">>, <<"/", "t", "/", "b">> >>),
         Event(Some("build-finished"), None, None) >>,
      << BadJson >>,
      <<>> }

\* ExecutionEnv of a run: StdExecutionEnv::new() over the file system
Env == StdExecutionEnv(existing(files))

\* fn find_cargo_home_dir, by whether the environment names a cargo home
find_cargo_home_dir(home_set) == [ok |-> home_set, path |-> CargoHome]

\* print! and println!: what is printed, and the value it was formatted from
Printed(what, value) == [what |-> what, value |-> value]

\* main: the exit code of the process is the Ok value of main_impl, 1 for an
\* Err, 101 for a panic
Return(code) ==
    /\ pc' = "exited"
    /\ exit' = [kind |-> "exit", code |-> code, msg |-> ""]

Fail(msg) ==
    /\ pc' = "exited"
    /\ exit' = [kind |-> "error", code |-> 1, msg |-> msg]

Panic(msg) ==
    /\ pc' = "exited"
    /\ exit' = [kind |-> "panic", code |-> 101, msg |-> msg]

\* the manifest file of the project directory of target, as it is now
manifest_file(target) ==
    LET in(d) ==
            IF d.ok /\ d.dir \in DOMAIN cache /\ CargoToml \in DOMAIN cache[d.dir]
            THEN [exists |-> TRUE, text |-> cache[d.dir][CargoToml]]
            ELSE NoPrevious
    IN  in(find_project_dir(target, Env))

\* the effects of prepare_manifest_dir(target, env) with the result r
Prepared(target, r) ==
    /\ cache' = r.dirs
    /\ last_read' = [target |-> target, file |-> read_file(files, target)]
    /\ previous' = manifest_file(target)
    /\ project_info' = r.info

\* Command::status() / Command::output() of build_cargo_call_with_args and
\* of the install command; stdout is what Command::output() captured, empty
\* for Command::status(), which captures nothing
Invocation(call, flag, info, extra_args, outcome, captured) ==
    [command |-> call.command, flag |-> flag, dir |-> info.manifest_dir,
     extra_args |-> extra_args, args |-> call.args, outcome |-> outcome,
     stdout |-> captured]

\* main_impl up to the call of execute_args
Start(a, home_set) ==
    /\ pc = "idle"
    /\ argv' = a
    /\ LET execute(parsed) ==
               IF parsed.tag = "Err"
               THEN Fail(parsed.err) /\ UNCHANGED <<args, depth>>
               ELSE /\ args' = parsed
                    /\ depth' = 1
                    /\ pc' = "execute_args"
                    /\ UNCHANGED exit
       IN  IF ~find_cargo_home_dir(home_set).ok
           THEN Fail("Could not determine cargo home directory") /\ UNCHANGED <<args, depth>>
           ELSE execute(parse_args(a))
    /\ UNCHANGED <<unitvars, diskvars, project_info, da_entries, spawned, last_read, previous,
                   stdout>>

\* execute_args, Args::DefaultAction, up to the recursive call
DefaultAction(io) ==
    /\ pc = "execute_args"
    /\ args.variant = "DefaultAction"
    /\ da_entries' = da_entries + 1
    /\ LET recurse(new_args) ==
               IF new_args.tag = "Err"
               THEN Fail(new_args.err) /\ UNCHANGED <<args, depth>>
               ELSE IF recursion_detected(new_args)
               THEN Panic("Recursion detected in default action") /\ UNCHANGED <<args, depth>>
               ELSE /\ args' = new_args
                    /\ depth' = depth + 1
                    /\ UNCHANGED <<pc, exit>>
           merge(merged_args) ==
               IF merged_args.panic
               THEN /\ Panic("insertion index is out of bounds")
                    /\ UNCHANGED <<args, depth, stdout>>
               ELSE /\ stdout' = Append(stdout, Printed(":: cargo", merged_args.args))
                    /\ recurse(parse_args(merged_args.args))
           prepare(r) ==
               /\ Prepared(args.target, r)
               /\ IF ~r.ok
                  THEN Fail("prepare_manifest_dir") /\ UNCHANGED <<args, depth, stdout>>
                  ELSE merge(merge_default_args(args, r.info.options.default_action))
       IN  prepare(prepare_manifest_dir(args.target, Env, files, cache, io))
    /\ UNCHANGED <<unitvars, argv, files, spawned>>

\* execute_args, the toolchain-delegated variants: prepare_manifest_dir
PrepareCargoCall(io) ==
    /\ pc = "execute_args"
    /\ args.variant \in {"GenericCargoCall", "BuildCargoCall", "InstallCargoCall"}
    /\ LET prepare(r) ==
               /\ Prepared(args.target, r)
               /\ IF r.ok THEN pc' = "prepared" /\ UNCHANGED exit
                  ELSE Fail("prepare_manifest_dir")
       IN  prepare(prepare_manifest_dir(args.target, Env, files, cache, io))
    /\ UNCHANGED <<unitvars, argv, files, args, da_entries, depth, spawned, stdout>>

\* execute_args, Args::GenericCargoCall and Args::BuildCargoCall:
\* execute_cargo_call and what the branch does with the exit code
ExecuteCargoCall(outcome) ==
    /\ pc = "prepared"
    /\ args.variant \in {"GenericCargoCall", "BuildCargoCall"}
    /\ spawned' = Append(spawned,
                         Invocation(args, "--manifest-path", project_info, <<>>, outcome,
                                    <<>>))
    /\ LET exit_code == unwrap_or_default(outcome.code)
       IN  IF ~outcome.started THEN Fail("status")
           ELSE IF args.variant = "GenericCargoCall" THEN Return(exit_code)
           ELSE IF exit_code # 0 THEN Fail("Error during build. Cannot copy build artifacts")
           ELSE pc' = "built" /\ UNCHANGED exit
    /\ UNCHANGED <<unitvars, argv, diskvars, args, project_info, da_entries, depth,
                   last_read, previous, stdout>>

\* execute_args, Args::InstallCargoCall: cargo install --path
Install(outcome) ==
    /\ pc = "prepared"
    /\ args.variant = "InstallCargoCall"
    /\ spawned' = Append(spawned, Invocation(args, "--path", project_info, <<>>, outcome,
                                            <<>>))
    /\ IF ~outcome.started THEN Fail("status")
       ELSE Return(unwrap_or_default(outcome.code))
    /\ UNCHANGED <<unitvars, argv, diskvars, args, project_info, da_entries, depth,
                   last_read, previous, stdout>>

\* the files of the working directory as a directory, and back
working_dir(fs) ==
    LET names == {file_name(p) : p \in {q \in DOMAIN fs : parent(q) = WorkingDirectory}}
    IN  [n \in names |-> fs[join(WorkingDirectory, n)]]

with_working_dir(fs, dir) ==
    LET kept == {q \in DOMAIN fs : parent(q) # WorkingDirectory}
        paths == kept \cup {join(WorkingDirectory, n) : n \in DOMAIN dir}
    IN  [q \in paths |-> IF q \in kept THEN fs[q] ELSE dir[file_name(q)]]

\* execute_args, Args::BuildCargoCall after the build: collect_build_artifacts
\* and copy_build_artifacts into std::env::current_dir()
CollectAndCopy(outcome, output) ==
    /\ pc = "built"
    /\ spawned' = Append(spawned,
                         Invocation(args, "--manifest-path", project_info,
                                    <<"--message-format", "json">>, outcome,
                                    IF outcome.started THEN output ELSE <<>>))
    /\ LET copy(copied) ==
               /\ files' = with_working_dir(files, copied.dir)
               /\ IF copied.ok THEN Return(0) ELSE Fail("Invalid source filename")
           collect(artifacts) ==
               IF ~artifacts.ok THEN Fail("parse_build_output") /\ UNCHANGED files
               ELSE copy(copy_build_artifacts(artifacts.artifacts, working_dir(files),
                                              project_info.options))
       IN  IF ~outcome.started THEN Fail("output") /\ UNCHANGED files
           ELSE IF unwrap_or_default(outcome.code) # 0
           THEN Fail("Error during running cargo") /\ UNCHANGED files
           ELSE collect(parse_build_output(output, project_info))
    /\ UNCHANGED <<unitvars, argv, cache, args, project_info, da_entries, depth,
                   last_read, previous, stdout>>

\* execute_args, Args::Manifest: the manifest is printed
Manifest ==
    /\ pc = "execute_args"
    /\ args.variant = "Manifest"
    /\ LET print(normed) ==
               IF ~normed.ok
               THEN Fail("Error during normalizing manifest") /\ UNCHANGED stdout
               ELSE /\ stdout' = Append(stdout, Printed("manifest", to_string(normed.root)))
                    /\ Return(0)
           normalize_it(manifest) ==
               IF manifest.tag # "Ok"
               THEN Fail("Error while parsing manifest path") /\ UNCHANGED stdout
               ELSE print(normalize_manifest(manifest.doc, args.target, Env))
           parse(file) ==
               IF ~file.exists
               THEN Fail("Error while opening manifest path") /\ UNCHANGED stdout
               ELSE normalize_it(parse_manifest(file.lines))
       IN  parse(read_file(files, args.target))
    /\ UNCHANGED <<unitvars, argv, diskvars, args, project_info, da_entries, depth, spawned,
                   last_read, previous>>

\* execute_args, Args::WriteManifest: Cargo.toml of the working directory
WriteManifest(io) ==
    /\ pc = "execute_args"
    /\ args.variant = "WriteManifest"
    /\ LET write(normed) ==
               IF ~normed.ok
               THEN Fail("Error during normalizing manifest") /\ UNCHANGED files
               ELSE IF io \in {"create_dir_all", "create"}
               THEN Fail("create") /\ UNCHANGED files
               ELSE IF io = "write"
               THEN Fail("write") /\ files' = fs_write(files, on_disk(CargoToml), to_string(<<>>))
               ELSE /\ Return(0)
                    /\ files' = fs_write(files, on_disk(CargoToml), to_string(normed.root))
           normalize_it(manifest) ==
               IF manifest.tag # "Ok"
               THEN Fail("Error while parsing manifest path") /\ UNCHANGED files
               ELSE write(normalize_manifest(manifest.doc, args.target, LocalEnv(Env)))
           parse(file) ==
               IF ~file.exists
               THEN Fail("Error while opening manifest path") /\ UNCHANGED files
               ELSE normalize_it(parse_manifest(file.lines))
       IN  parse(read_file(files, args.target))
    /\ UNCHANGED <<unitvars, argv, cache, args, project_info, da_entries, depth, spawned,
                   last_read, previous, stdout>>

\* execute_args, Args::Help and Args::ListTemplates: a text is printed
Help ==
    /\ pc = "execute_args"
    /\ args.variant \in {"Help", "ListTemplates"}
    /\ stdout' = Append(stdout, Printed("text", args.variant))
    /\ Return(0)
    /\ UNCHANGED <<unitvars, argv, diskvars, args, project_info, da_entries, depth, spawned,
                   last_read, previous>>

\* execute_args, Args::New (the template is in args.command)
New(io) ==
    /\ pc = "execute_args"
    /\ args.variant = "New"
    /\ LET write(source, path) ==
               IF ~source.ok THEN Fail("render_new_file") /\ UNCHANGED <<files, stdout>>
               ELSE IF exists(files, args.target)
               THEN Fail("Target already exists") /\ UNCHANGED <<files, stdout>>
               ELSE /\ stdout' = Append(stdout, Printed("Write", args.target))
                    /\ IF io \in {"create_dir_all", "create"}
                          \/ parent(path) \notin Directories
                       THEN Fail("create") /\ UNCHANGED files
                       ELSE IF io = "write"
                       THEN Fail("write") /\ files' = fs_write(files, path, ScriptFile(<<>>))
                       ELSE /\ Return(0)
                            /\ files' = fs_write(files, path, ScriptFile(source.source))
       IN  write(render_new_file(args.command, args.target), on_disk(args.target))
    /\ UNCHANGED <<unitvars, argv, cache, args, project_info, da_entries, depth, spawned,
                   last_read, previous>>

\* the process is gone; the next run starts from the file system it left
Exit ==
    /\ pc = "exited"
    /\ pc' = "idle"
    /\ argv' = <<>>
    /\ args' = NotResolved
    /\ project_info' = NoProjectInfo
    /\ da_entries' = 0
    /\ depth' = 0
    /\ spawned' = <<>>
    /\ exit' = NotExited
    /\ last_read' = NothingRead
    /\ previous' = NoPrevious
    /\ stdout' = <<>>
    /\ UNCHANGED <<unitvars, diskvars>>

\* the user saves a script
EditScript(path, lines) ==
    /\ pc \in {"idle", "execute_args"}
    /\ files' = fs_write(files, path, ScriptFile(lines))
    /\ UNCHANGED <<unitvars, argv, cache, runvars>>

\* the user removes a script
RemoveScript(path) ==
    /\ pc \in {"idle", "execute_args"}
    /\ path \in DOMAIN files
    /\ files' = remove(files, path)
    /\ UNCHANGED <<unitvars, argv, cache, runvars>>

Init ==
    /\ reader = <<>>
    /\ parse_result = NotParsed
    /\ resolved = NotResolved
    /\ norm = NoNorm
    /\ build = NoBuild
    /\ argv = <<>>
    /\ files \in [ScriptPaths -> {ScriptFile(c) : c \in ScriptContents}]
    /\ cache = <<>>
    /\ Idle

Next ==
    \/ \E a \in CommandLines, home_set \in BOOLEAN : Start(a, home_set)
    \/ \E io \in IoOutcomes : DefaultAction(io)
    \/ \E io \in IoOutcomes : PrepareCargoCall(io)
    \/ \E outcome \in CargoOutcomes : ExecuteCargoCall(outcome)
    \/ \E outcome \in CargoOutcomes : Install(outcome)
    \/ \E outcome \in CargoOutcomes, output \in BuildOutputs : CollectAndCopy(outcome, output)
    \/ Manifest
    \/ \E io \in IoOutcomes : WriteManifest(io)
    \/ Help
    \/ \E io \in IoOutcomes : New(io)
    \/ Exit
    \/ \E path \in ScriptPaths, lines \in ScriptContents : EditScript(path, lines)
    \/ \E path \in ScriptPaths : RemoveScript(path)

Spec == Init /\ [][Next]_vars

(***************************************************************************)
(* Claims about parse_manifest                                             *)
(***************************************************************************)
IsCommentLine(l) == starts_with(l, <<"//!">>)
IsOpenMarker(l) == starts_with(l, <<"//!", " ", "~~~", "cargo">>)
IsCloseMarker(l) == starts_with(l, <<"//!", " ", "~~~">>) /\ ~IsOpenMarker(l)
IsPlainComment(l) == IsCommentLine(l) /\ ~IsOpenMarker(l) /\ ~IsCloseMarker(l)

Parsed == parse_result.tag # "None"

\* the descriptor text D as a script: every line behind "//! ", between the
\* open marker line and the close marker line
Wrap(D) ==
    <<ManifestStartPrefix>> \o [i \in 1..Len(D) |-> Commented(D[i])] \o <<ManifestEndPrefix>>

\* the lines of D, each newline-terminated, as one text
RECURSIVE Joined(_)
Joined(D) == IF D = <<>> THEN <<>> ELSE Head(D) \o <<"\n">> \o Joined(Tail(D))

Descriptors == SeqsUpTo(DescriptorLines, MaxLines - 2)

\* C5: for every descriptor text D, parse_manifest of D wrapped (each line
\* behind "//! ", between the open and the close marker) reaches the close
\* marker having accumulated exactly D, each line unchanged and
\* newline-terminated.
C5_RoundTrip ==
    \A D \in Descriptors :
        (Parsed /\ reader = Wrap(D)) =>
            (parse_result.block /\ parse_result.raw = Joined(D))

\* the first open marker of the script comes after a line of ordinary code,
\* or there is no open marker
NoOpenBeforeCode(lines) ==
    \A i \in 1..Len(lines) :
        IsOpenMarker(lines[i]) => \E j \in 1..(i - 1) : ~IsCommentLine(lines[j])

\* C6: when no open-marker line occurs before the first line that is neither
\* a "//!" comment line nor a marker line, parse_manifest returns the empty
\* document and no error.
C6_NoBlockIsEmpty ==
    (Parsed /\ NoOpenBeforeCode(reader)) =>
        (parse_result.tag = "Ok" /\ ~parse_result.block /\ parse_result.doc = <<>>)

\* C6 witness: markers that appear only after ordinary code has started
C6_Witness ==
    /\ Parsed
    /\ NoOpenBeforeCode(reader)
    /\ \E i \in 1..Len(reader) : IsOpenMarker(reader[i])
    /\ \E i \in 1..Len(reader) : IsCloseMarker(reader[i])
    /\ parse_result.tag = "Ok"

\* the descriptor block opens at line i: an open marker with only comment
\* lines and close markers before it
BlockOpensAt(lines, i) ==
    /\ IsOpenMarker(lines[i])
    /\ \A j \in 1..(i - 1) : IsCommentLine(lines[j]) /\ ~IsOpenMarker(lines[j])

\* inside the block opened at line i the input ends before a close marker
EndsInsideBlock(lines, i) == \A k \in (i + 1)..Len(lines) : IsPlainComment(lines[k])

\* line k is the first line of the block opened at i that is not a plain
\* comment, and it is a second open marker
SecondOpenAt(lines, i, k) ==
    /\ \A m \in (i + 1)..(k - 1) : IsPlainComment(lines[m])
    /\ IsOpenMarker(lines[k])

\* ... and it is no "//!" comment line at all
NonCommentAt(lines, i, k) ==
    /\ \A m \in (i + 1)..(k - 1) : IsPlainComment(lines[m])
    /\ ~IsCommentLine(lines[k])

BlockBroken(lines) ==
    \E i \in 1..Len(lines) :
        /\ BlockOpensAt(lines, i)
        /\ \/ EndsInsideBlock(lines, i)
           \/ \E k \in (i + 1)..Len(lines) :
                SecondOpenAt(lines, i, k) \/ NonCommentAt(lines, i, k)

\* C7: inside the descriptor block, end of input before a close marker, a
\* second open-marker line and a line that is no "//!" comment line (a blank
\* line included) each yield an error, never a document.
C7_BrokenBlockIsError ==
    (Parsed /\ BlockBroken(reader)) =>
        (parse_result.tag = "Err"
         /\ parse_result.err \in {"Incomplete manifest", "Invalid manifest"})

\* C7 witness: a blank line inside the block, after one accumulated line
C7_Witness ==
    /\ Parsed
    /\ Len(reader) >= 3
    /\ BlockOpensAt(reader, 1)
    /\ IsPlainComment(reader[2])
    /\ reader[3] = <<>>
    /\ parse_result.tag = "Err"

(***************************************************************************)
(* Claims about parse_args                                                 *)
(***************************************************************************)
Resolved == resolved.tag # "None"

ToolchainVariants == {"GenericCargoCall", "BuildCargoCall", "InstallCargoCall"}

\* argv is <wop k target A...> for a toolchain keyword k
IsToolchainCall(a) ==
    /\ Len(a) >= 3
    /\ a[1] = <<"wop">>
    /\ \E k \in CargoCommands : a[2] = <<k>>

Separator == <<"--">>

HasSeparator(A) == \E i \in 1..Len(A) : A[i] = Separator

FirstSeparator(A) ==
    CHOOSE i \in 1..Len(A) : A[i] = Separator /\ \A j \in 1..(i - 1) : A[j] # Separator

\* the keyword with a "-debug" suffix removed
BaseCommand(k) ==
    CASE k = "build-debug" -> "build"
      [] k = "run-debug" -> "run"
      [] OTHER -> k

\* the toolchain-directed group T and the script-directed group S the claim
\* names, for a keyword other than run and for run with a "--"
GroupT(k, A) == IF k = "run" THEN Take(A, FirstSeparator(A) - 1) ELSE A
GroupS(k, A) == IF k = "run" THEN Drop(A, FirstSeparator(A) + 1) ELSE <<>>

ExpectedArgs(k, A) ==
    GroupT(k, A)
    \o (IF k \in {"build", "run"} THEN <<(<<"--release">>)>> ELSE <<>>)
    \o (IF GroupS(k, A) # <<>> THEN <<Separator>> \o GroupS(k, A) ELSE <<>>)

\* C8: for every toolchain keyword k and residual argument list A, parse_args
\* yields a ToolchainCall whose command is k without a "-debug" suffix and
\* whose args are T ++ ["--release" iff k is build or run] ++ (["--"] ++ S iff
\* S is non-empty); for run with a "--" in A, T and S are the parts of A
\* before and after the first "--"; for every other k, T = A and S is empty.
C8_ToolchainArgs ==
    (Resolved /\ IsToolchainCall(argv)) =>
        LET k == argv[2][1]
            A == Drop(argv, 4)
        IN  /\ resolved.tag = "Ok"
            /\ resolved.variant \in ToolchainVariants
            /\ resolved.command = <<BaseCommand(k)>>
            /\ resolved.target = argv[3]
            /\ (k # "run" \/ HasSeparator(A)) => resolved.args = ExpectedArgs(k, A)

\* C8 witness: run-debug with arguments on both sides of a "--"
C8_Witness ==
    /\ Resolved
    /\ IsToolchainCall(argv)
    /\ argv[2] = <<"run-debug">>
    /\ Len(argv) = 6
    /\ argv[5] = Separator
    /\ argv[4] # Separator
    /\ resolved.command = <<"run">>

\* C9: for every argument list of length >= 2 whose first element is wop and
\* whose second element has a file extension, parse_args returns
\* DefaultAction with target the second element and args all following
\* elements in order, also when the script's stem is a command keyword.
C9_ExtensionIsDefaultAction ==
    (Resolved /\ Len(argv) >= 2 /\ argv[1] = <<"wop">> /\ path_has_extension(argv[2])) =>
        /\ resolved.tag = "Ok"
        /\ resolved.variant = "DefaultAction"
        /\ resolved.target = argv[2]
        /\ resolved.args = Drop(argv, 3)

\* C9 witness: build.rs, a script whose stem is a command keyword, with args
C9_Witness ==
    /\ Resolved
    /\ Len(argv) >= 4
    /\ argv[1] = <<"wop">>
    /\ argv[2] = <<"build", ".", "rs">>
    /\ resolved.variant = "DefaultAction"

KnownKeywords == CargoCommands \cup OtherKeywords

\* the second element is a command keyword, not a script
IsKeyword(a, k) == a[2] = <<k>>

\* the argument lists the claim lists
BadArgs(a) ==
    \/ Len(a) < 2
    \/ a[1] # <<"wop">>
    \/ /\ ~path_has_extension(a[2])
       /\ \/ \A k \in KnownKeywords : ~IsKeyword(a, k)
          \/ \E k \in CargoCommands : IsKeyword(a, k) /\ Len(a) = 2
          \/ \E k \in {"manifest", "write-manifest"} : IsKeyword(a, k) /\ Len(a) # 3
          \/ IsKeyword(a, "new") /\ Len(a) \notin {2, 4}

\* C10: parse_args returns an error for every argument list that has fewer
\* than two elements, a first element other than wop, an unknown keyword, a
\* toolchain keyword with no target, manifest or write-manifest with a number
\* of further arguments other than one, or new with a number of further
\* arguments other than zero or two.
C10_BadArgsIsError == (Resolved /\ BadArgs(argv)) => resolved.tag = "Err"

\* C10 witness: manifest with two further arguments
C10_Witness ==
    /\ Resolved
    /\ Len(argv) = 4
    /\ argv[1] = <<"wop">>
    /\ argv[2] = <<"manifest">>
    /\ resolved.tag = "Err"

(***************************************************************************)
(* Claims about execute_args                                               *)
(***************************************************************************)
Running == pc \in {"execute_args", "prepared", "built"}

\* the last toolchain subprocess of the run
LastSpawned == spawned[Len(spawned)]

\* C1: for the generic, build and install variants the exit code of the
\* process equals the exit code of the toolchain subprocess, whatever the
\* code is
C1_ExitCodeIsToolchains ==
    (/\ pc = "exited"
     /\ args.variant \in ToolchainVariants
     /\ spawned # <<>>
     /\ LastSpawned.outcome.started
     /\ LastSpawned.outcome.code.some)
    => (exit.kind = "exit" /\ exit.code = LastSpawned.outcome.code.v)

\* how far a run of execute_args is: the calls made, then the place in the
\* branch
Rank ==
    4 * depth + (CASE pc = "execute_args" -> 0
                   [] pc = "prepared" -> 1
                   [] pc = "built" -> 2
                   [] OTHER -> 3)

\* C2: a run enters the DefaultAction branch at most once and calls
\* execute_args at most twice; the call the branch makes is never for a
\* DefaultAction, a synthesized argument list that resolves to one ends the
\* run with nothing spawned; and every step of a run brings it nearer to its
\* end, so that it terminates
C2_DefaultActionOnce ==
    [][/\ da_entries' <= 1
       /\ depth' <= 2
       /\ (depth' = 2 /\ pc' = "execute_args") => args'.variant # "DefaultAction"
       /\ (/\ args.variant = "DefaultAction"
           /\ da_entries' = da_entries + 1
           /\ parse_args(merge_default_args(args, project_info'.options.default_action).args).variant
                = "DefaultAction")
          => (pc' = "exited" /\ exit'.kind # "exit" /\ spawned' = <<>>)
       /\ (Running /\ runvars' # runvars) => (Rank' > Rank /\ Rank' <= 11)]_vars

\* a run that the recursion check ended
C2_Witness ==
    /\ pc = "exited"
    /\ da_entries = 1
    /\ exit.kind = "panic"
    /\ exit.msg = "Recursion detected in default action"

\* C3: after a successful prepare_manifest_dir the project directory holds
\* the manifest file and a copy of the script under its file name
C3_ScriptIsCopied ==
    pc = "prepared"
    => (/\ project_info.manifest_dir \in DOMAIN cache
        /\ CargoToml \in DOMAIN cache[project_info.manifest_dir]
        /\ file_name(last_read.target) \in DOMAIN cache[project_info.manifest_dir])

\* the environment of a successful prepare_manifest_dir: the script and the
\* directories are on disk
EnvOfRead == StdExecutionEnv(Directories \cup ScriptPaths)

\* the manifest text of the script that was read
ManifestOfRead ==
    to_string(normalize_manifest(parse_manifest(last_read.file.lines).doc,
                                 last_read.target, EnvOfRead).root)

\* a prepare_manifest_dir of the run succeeded and nothing ran since
Materialized == pc \in {"prepared", "built"} \/ (pc = "execute_args" /\ depth = 2)

\* C4: after a successful prepare_manifest_dir the manifest file of the
\* project directory is the text of the normalized descriptor of the script
\* content that was read, whatever the file held before
C4_ManifestIsRewritten ==
    Materialized
    => (/\ project_info.manifest_dir \in DOMAIN cache
        /\ CargoToml \in DOMAIN cache[project_info.manifest_dir]
        /\ cache[project_info.manifest_dir][CargoToml] = ManifestOfRead)

\* a prepare_manifest_dir that found the manifest of another script content
C4_Witness ==
    /\ pc = "prepared"
    /\ previous.exists
    /\ previous.text # to_string(<<>>)
    /\ previous.text # ManifestOfRead
    /\ cache[project_info.manifest_dir][CargoToml] = ManifestOfRead

(***************************************************************************)
(* Claims about parse_args: run without a separator                        *)
(***************************************************************************)
\* argv is <wop run target A...> and A holds no "--"
IsRunWithoutSeparator(a) ==
    /\ Len(a) >= 3
    /\ a[1] = <<"wop">>
    /\ a[2] = <<"run">>
    /\ ~HasSeparator(Drop(a, 4))

\* C11: for the run keyword with a residual argument list A that holds no
\* "--", every element of A goes to the script: the resolved args are
\* ["--release", "--"] ++ A when A is not empty and ["--release"] when it is
C11_RunArgsGoToScript ==
    (Resolved /\ IsRunWithoutSeparator(argv)) =>
        LET A == Drop(argv, 4)
        IN  /\ resolved.tag = "Ok"
            /\ resolved.command = <<"run">>
            /\ resolved.args = IF A = <<>> THEN <<(<<"--release">>)>>
                               ELSE <<(<<"--release">>), Separator>> \o A

\* C11 witness: run with an argument that looks like an option of cargo
C11_Witness ==
    /\ Resolved
    /\ IsRunWithoutSeparator(argv)
    /\ Len(argv) >= 5
    /\ argv[4] = <<"--verbose">>
    /\ resolved.args[3] = <<"--verbose">>

(***************************************************************************)
(* Claims about normalize_manifest                                         *)
(***************************************************************************)
\* normalize_manifest returned Ok
Normalized == norm.tag \in {"Once", "Twice"} /\ norm.once.ok

\* the lib target and the bin targets of a manifest
TargetsOf(root) ==
    (IF "lib" \in DOMAIN root THEN {root["lib"]} ELSE {})
    \cup (IF "bin" \in DOMAIN root THEN {root["bin"].v[i] : i \in DOMAIN root["bin"].v}
          ELSE {})

\* C12: in the manifest normalize_manifest returns, under StdExecutionEnv and
\* under LocalEnv and for every script path, the path of the lib target and
\* of every bin target is env.normalize(script path), whatever the
\* descriptor said
C12_TargetsPointAtScript ==
    Normalized =>
        \A target \in TargetsOf(norm.once.root) :
            /\ "path" \in DOMAIN target.v
            /\ target.v["path"] = VString(env_normalize(norm.env, norm.target_path).path)

\* the target a target of the result was made from: the entry of the
\* descriptor at the same place, or the empty table of the synthesized entry
BinBefore(manifest, i) ==
    IF "bin" \in DOMAIN manifest /\ i \in DOMAIN manifest["bin"].v THEN manifest["bin"].v[i]
    ELSE EmptyTable

\* the name a target has after normalization, by the claim
NameByClaim(before, package_name) ==
    IF "name" \in DOMAIN before.v THEN before.v["name"] ELSE package_name

\* C13: a lib or bin target without a name gets the name of the package
\* section of the result, a name the user wrote there included; a target
\* with a name keeps it
C13_TargetsNamedAfterPackage ==
    Normalized =>
        LET root == norm.once.root
            package_name == root["package"].v["name"]
        IN  /\ "lib" \in DOMAIN root =>
                    root["lib"].v["name"] = NameByClaim(norm.manifest["lib"], package_name)
            /\ "bin" \in DOMAIN root =>
                    \A i \in DOMAIN root["bin"].v :
                        root["bin"].v[i].v["name"]
                            = NameByClaim(BinBefore(norm.manifest, i), package_name)

\* C14: normalizing a manifest normalize_manifest returned, with the same
\* script path and under the same shipped environment, succeeds and returns
\* it unchanged, the fields that hold paths included
C14_NormalizeIsIdempotent ==
    norm.tag = "Twice" => (norm.twice.ok /\ norm.twice.root = norm.once.root)

(***************************************************************************)
(* Claims about the manifests the program produces                         *)
(***************************************************************************)
\* the descriptor of the script the last prepare_manifest_dir read
DescriptorOfRead == parse_manifest(last_read.file.lines).doc

\* a manifest text without a top-level cargo-wop section
NoCustomSection(text) == "cargo-wop" \notin DOMAIN text.toml

\* the manifest texts there are: in the project directories of the cache, in
\* Cargo.toml of the working directory, and printed
ManifestTexts ==
    {cache[dir][CargoToml] : dir \in {d \in DOMAIN cache : CargoToml \in DOMAIN cache[d]}}
    \cup {files[p] : p \in {q \in DOMAIN files : q = on_disk(CargoToml)}}
    \cup {stdout[i].value : i \in {j \in DOMAIN stdout : stdout[j].what = "manifest"}}

PackageBefore ==
    IF "package" \in DOMAIN norm.manifest /\ is_table(norm.manifest["package"])
    THEN norm.manifest["package"].v ELSE <<>>

\* the package section of the manifest normalize_manifest returned
PackageAfter == norm.once.root["package"].v

\* the defaults of the required fields, by the claim
PackageDefaults ==
    "name" :> VString(file_stem(norm.target_path))
    @@ "version" :> VString(<<"0", ".", "1", ".", "0">>)
    @@ "edition" :> VString(<<"2018">>)

\* C16: after normalization the package section has name, version and
\* edition; a field the descriptor left out has its default (the script's
\* stem, 0.1.0, 2018), and every value the descriptor set is kept, except
\* that package.build is rewritten as a path
C16_PackageIsComplete ==
    Normalized =>
        /\ DOMAIN PackageAfter = DOMAIN PackageBefore \cup DOMAIN PackageDefaults
        /\ \A k \in DOMAIN PackageDefaults :
                PackageAfter[k] = IF k \in DOMAIN PackageBefore THEN PackageBefore[k]
                                  ELSE PackageDefaults[k]
        /\ \A k \in DOMAIN PackageBefore \ {"build"} : PackageAfter[k] = PackageBefore[k]
        /\ "build" \in DOMAIN PackageBefore =>
                PackageAfter["build"]
                    = VString(env_normalize(norm.env,
                                            join(parent(norm.target_path),
                                                 PackageBefore["build"].v)).path)

\* a descriptor that names the package and leaves the version out
C16_Witness ==
    /\ Normalized
    /\ DOMAIN PackageBefore = {"name"}
    /\ PackageAfter["name"] = VString(<<"x">>)
    /\ PackageAfter["version"] = VString(<<"0", ".", "1", ".", "0">>)

\* the descriptor declares a target: a lib section, or a bin array that is
\* not empty
HasDefinition(manifest) ==
    \/ "lib" \in DOMAIN manifest
    \/ ("bin" \in DOMAIN manifest /\ is_array(manifest["bin"]) /\ manifest["bin"].v # <<>>)

\* C17: a manifest normalize_manifest returned has a lib section or a bin
\* array with an entry; when the descriptor has no lib section and no bin
\* array with an entry (an empty bin array included), the result has no lib
\* section and exactly one bin entry, the empty table after patch_target:
\* a path and the script's stem as name
C17_AtLeastOneTarget ==
    Normalized =>
        LET root == norm.once.root
        IN  /\ HasDefinition(root)
            /\ ~HasDefinition(norm.manifest) =>
                    /\ "lib" \notin DOMAIN root
                    /\ is_array(root["bin"])
                    /\ Len(root["bin"].v) = 1
                    /\ is_table(root["bin"].v[1])
                    /\ DOMAIN root["bin"].v[1].v = {"path", "name"}
                    /\ root["bin"].v[1].v["name"] = VString(file_stem(norm.target_path))

\* a descriptor with an empty bin array was normalized
C17_Witness ==
    /\ Normalized
    /\ "bin" \in DOMAIN norm.manifest
    /\ norm.manifest["bin"] = VArray(<<>>)
    /\ "lib" \notin DOMAIN norm.manifest
    /\ Len(norm.once.root["bin"].v) = 1

(***************************************************************************)
(* Claims about the artifacts of a build                                   *)
(***************************************************************************)
\* parse_build_output returned Ok
Collected == build.tag \in {"Parsed", "Copied"} /\ build.parsed.ok

\* the line reports an artifact of the package called name: its reason is
\* compiler-artifact and its package id is name, a space, and more
IsOwnArtifact(event, name) ==
    /\ event.reason = Some("compiler-artifact")
    /\ event.package_id.some
    /\ Len(event.package_id.v) > Len(name)
    /\ Take(event.package_id.v, Len(name)) = name
    /\ event.package_id.v[Len(name) + 1] = " "

\* the file names of the artifacts of the package, in the order of the lines
RECURSIVE OwnFilenames(_, _)
OwnFilenames(output, name) ==
    IF output = <<>> THEN <<>>
    ELSE (IF IsOwnArtifact(Head(output), name) THEN Head(output).filenames.v ELSE <<>>)
         \o OwnFilenames(Tail(output), name)

\* C18: what parse_build_output returns is, in the order of the stream, the
\* file names of the lines whose reason is compiler-artifact and whose
\* package id starts with the project name and a space; every other line,
\* the artifacts of a package whose name only starts with the project name
\* included, adds nothing
C18_OwnArtifactsInOrder ==
    Collected => build.parsed.artifacts = OwnFilenames(build.output, build.project_info.name)

\* artifacts of the project on both sides of one of a package with a longer
\* name
C18_Witness ==
    /\ Collected
    /\ build.project_info.name = <<"foo">>
    /\ Len(build.output) = 3
    /\ build.output[2].package_id = Some(LongerPackage)
    /\ build.parsed.artifacts = <<Built("c"), Built("a"), Built("b")>>

\* copy_build_artifacts returned Ok
Copied == build.tag = "Copied" /\ build.copied.ok

\* the name the filter gives the i-th artifact: the entry of its file name,
\* its own file name when the filter has none
MappedName(i) ==
    LET filter == build.project_info.options.filter
        own == file_name(build.parsed.artifacts[i])
    IN  IF to_str(own) \in DOMAIN filter THEN filter[to_str(own)] ELSE own

\* the artifacts that are copied under the name n, by their place in the list
CopiedAs(n) == {i \in DOMAIN build.parsed.artifacts : MappedName(i) = n}

\* the last of a set of places
Last(places) == CHOOSE i \in places : \A j \in places : j <= i

\* C19: every artifact is copied into the destination directory under the
\* name the filter maps its file name to, under its own file name when the
\* filter has no entry for it, and is skipped exactly when the filter maps
\* it to the empty string; the artifacts are handled one by one, in order,
\* so the directory holds under every name the last artifact copied to it
C19_ArtifactsAreCopiedByFilter ==
    Copied =>
        /\ DOMAIN build.copied.dir
                = {MappedName(i) : i \in DOMAIN build.parsed.artifacts} \ {<<>>}
        /\ \A n \in DOMAIN build.copied.dir :
                build.copied.dir[n] = [copy_of |-> build.parsed.artifacts[Last(CopiedAs(n))]]

\* a and b were built, then c; a was copied under another name and c was
\* skipped
C19_Witness ==
    /\ Copied
    /\ build.parsed.artifacts = <<Built("a"), Built("b"), Built("c")>>
    /\ DOMAIN build.copied.dir = {<<"z", ".", "out">>, <<"b", ".", "out">>}
    /\ build.copied.dir[<<"z", ".", "out">>] = [copy_of |-> Built("a")]

(***************************************************************************)
(* Claims about the project directory                                      *)
(***************************************************************************)
\* {cache-root}/wop-cache/{stem}-{hash8} of the script at the absolute path p
DirectoryOf(p) ==
    [cache |-> CargoHome \o <<"/", "wop-cache">>, stem |-> file_stem(p),
     hash |-> hash_path(p)]

\* C20: the project directory is a function of the absolute path of the
\* script and of the cache root only: over all runs, whatever the script
\* holds, whatever the command and the arguments are and however the path
\* is spelled, the project directories there are and the one a run prepared
\* are {cache-root}/wop-cache/{stem}-{hash8} of the script's absolute path
C20_OneDirectoryPerScript ==
    /\ \A dir \in DOMAIN cache : \E p \in ScriptPaths : dir = DirectoryOf(p)
    /\ project_info # NoProjectInfo =>
            project_info.manifest_dir = DirectoryOf(on_disk(last_read.target))

\* a run with arguments prepared the directory another run had prepared
\* from another content of the script, given by another spelling of its path
C20_Witness ==
    /\ pc = "prepared"
    /\ args.args # <<>>
    /\ is_absolute(last_read.target)
    /\ previous.exists
    /\ previous.text # to_string(<<>>)
    /\ previous.text # ManifestOfRead
    /\ project_info.manifest_dir = DirectoryOf(on_disk(Script))

(***************************************************************************)
(* Claims about the build command                                          *)
(***************************************************************************)
\* the run executes a build command
IsBuild == pc # "idle" /\ args.variant = "BuildCargoCall"

\* the subprocess ran and exited with the code 0
ExitedZero(invocation) ==
    invocation.outcome.started /\ invocation.outcome.code = Exited(0)

\* every line of the captured event stream parsed as JSON
EveryLineParsed(invocation) ==
    \A i \in DOMAIN invocation.stdout : invocation.stdout[i].json

\* the step put an artifact into the working directory: a file that is the
\* copy of an artifact is new or holds another artifact than before
ArtifactCopied ==
    \E p \in DOMAIN files' :
        /\ parent(p) = WorkingDirectory
        /\ "copy_of" \in DOMAIN files'[p]
        /\ (p \notin DOMAIN files \/ files[p] # files'[p])

\* the order of the steps of a build, as far as the run is
BuildStepsInOrder ==
    IsBuild =>
        /\ Len(spawned) <= 2
        /\ pc = "execute_args" => spawned = <<>>
        /\ spawned # <<>> =>
                /\ project_info # NoProjectInfo
                /\ CargoToml \in DOMAIN cache[project_info.manifest_dir]
                /\ spawned[1].extra_args = <<>>
        /\ pc = "built" => Len(spawned) = 1
        /\ Len(spawned) = 2 =>
                /\ spawned[2].extra_args = <<"--message-format", "json">>
                /\ spawned[2].dir = spawned[1].dir
                /\ ExitedZero(spawned[1])

\* a step of a build that changes the working directory
CopyOnlyAfterBothSucceeded ==
    (IsBuild /\ ArtifactCopied) =>
        /\ Len(spawned') = 2
        /\ ExitedZero(spawned'[1])
        /\ ExitedZero(spawned'[2])
        /\ EveryLineParsed(spawned'[2])

\* C21: a build materializes the project, then invokes the toolchain, then
\* invokes it again with --message-format json, then parses the event stream
\* and copies the artifacts; the second invocation is spawned only when the
\* first exited with 0, and no artifact is copied into the working directory
\* unless both invocations exited with 0 and every line of the event stream
\* parsed
C21_BuildStepsAreGated == []BuildStepsInOrder /\ [][CopyOnlyAfterBothSucceeded]_vars

(***************************************************************************)
(* Claims about normalize_paths                                            *)
(***************************************************************************)
\* normalize_paths returned
Rewritten == norm.tag = "Rewritten"

\* a string, a number or a boolean
IsScalar(value) == ~is_table(value) /\ ~is_array(value)

\* the traversal of value along path, value being what the segments before
\* the segment at led to, meets a scalar no deeper than the segment last;
\* the segment Len(path) names the leaf field, and the value met there is
\* the one expected to hold it
RECURSIVE MeetsScalar(_, _, _, _)
MeetsScalar(value, path, at, last) ==
    IF at > last THEN FALSE
    ELSE IF IsScalar(value) THEN TRUE
    ELSE IF at = Len(path) THEN FALSE
    ELSE IF is_array(value)
    THEN path[at] = ""
         /\ \E i \in DOMAIN value.v : MeetsScalar(value.v[i], path, at + 1, last)
    ELSE IF path[at] = ""
    THEN \E k \in DOMAIN value.v : MeetsScalar(value.v[k], path, at + 1, last)
    ELSE /\ path[at] \in DOMAIN value.v
         /\ MeetsScalar(value.v[path[at]], path, at + 1, last)

\* some key-path of PATH_NORMALIZATION leads to a scalar where a map or an
\* array is expected, the place of the table with the leaf field included
ScalarForContainer(root) ==
    \E i \in DOMAIN PATH_NORMALIZATION :
        LET path == PATH_NORMALIZATION[i]
        IN  path[1] \in DOMAIN root /\ MeetsScalar(root[path[1]], path, 2, Len(path))

\* the same, the place of the table with the leaf field left out
ScalarAboveLeafTable(root) ==
    \E i \in DOMAIN PATH_NORMALIZATION :
        LET path == PATH_NORMALIZATION[i]
        IN  path[1] \in DOMAIN root /\ MeetsScalar(root[path[1]], path, 2, Len(path) - 1)

\* the traversal of value along path meets nothing it fails for, when a
\* scalar in the place of the table with the leaf field is none of them: no
\* scalar above that place, no array under a named segment, no leaf field
\* that is no string
RECURSIVE Passable(_, _, _)
Passable(value, path, at) ==
    IF at = Len(path)
    THEN is_table(value) /\ path[at] \in DOMAIN value.v => is_str(value.v[path[at]])
    ELSE IF is_array(value)
    THEN path[at] = "" /\ \A i \in DOMAIN value.v : Passable(value.v[i], path, at + 1)
    ELSE IF is_table(value)
    THEN IF path[at] = ""
         THEN \A k \in DOMAIN value.v : Passable(value.v[k], path, at + 1)
         ELSE path[at] \in DOMAIN value.v
              => Passable(value.v[path[at]], path, at + 1)
    ELSE FALSE

PassableRoot(root) ==
    \A i \in DOMAIN PATH_NORMALIZATION :
        LET path == PATH_NORMALIZATION[i]
        IN  path[1] \in DOMAIN root => Passable(root[path[1]], path, 2)

\* C22 as stated: whenever the traversal along a key-path of
\* PATH_NORMALIZATION meets a scalar where the key-path expects a map or an
\* array, normalize_paths fails; it never skips the value
C22_ScalarIsError ==
    (Rewritten /\ ScalarForContainer(norm.manifest)) => ~norm.once.ok

\* C22, amended: a scalar met above the place of the table that holds the
\* leaf field makes normalize_paths fail; a scalar met in the place of that
\* table (a dependency given by its version) is skipped: it makes nothing
\* fail, and the document normalize_paths leaves behind has it unchanged
C22_ScalarAboveLeafTableIsError ==
    Rewritten =>
        /\ ScalarAboveLeafTable(norm.manifest) => ~norm.once.ok
        /\ PassableRoot(norm.manifest) => norm.once.ok
        /\ (norm.once.ok /\ "dependencies" \in DOMAIN norm.manifest
            /\ is_table(norm.manifest["dependencies"])) =>
                \A k \in DOMAIN norm.manifest["dependencies"].v :
                    IsScalar(norm.manifest["dependencies"].v[k]) =>
                        norm.once.root["dependencies"].v[k]
                            = norm.manifest["dependencies"].v[k]

\* a document with a dependency by version next to one by path was rewritten
C22_Witness ==
    /\ Rewritten
    /\ norm.once.ok
    /\ "dependencies" \in DOMAIN norm.manifest
    /\ is_table(norm.manifest["dependencies"])
    /\ IsScalar(norm.manifest["dependencies"].v["dep"])
    /\ norm.once.root["dependencies"].v["other"] # norm.manifest["dependencies"].v["other"]
    /\ ScalarForContainer(norm.manifest)

\* the place of a value in a document: the keys that lead to it, an element
\* of an array counting as the key InArray
InArray == "[]"

\* a place is the one a key-path describes: as long as the key-path, every
\* segment the key at its place, an empty segment any key or any element
IsPlaceOf(place, path) ==
    /\ Len(place) = Len(path)
    /\ \A j \in DOMAIN path :
            IF path[j] = "" THEN TRUE ELSE place[j] = path[j]

\* the place holds a path field
IsPathField(place) ==
    \E i \in DOMAIN PATH_NORMALIZATION : IsPlaceOf(place, PATH_NORMALIZATION[i])

\* the document with every string at the place of a path field replaced by
\* env.normalize(script directory joined with it), and nothing else changed
RECURSIVE WithPathsRewritten(_, _)
WithPathsRewritten(value, place) ==
    IF is_table(value)
    THEN VTable([k \in DOMAIN value.v |-> WithPathsRewritten(value.v[k], Append(place, k))])
    ELSE IF is_array(value)
    THEN VArray([i \in DOMAIN value.v |->
                    WithPathsRewritten(value.v[i], Append(place, InArray))])
    ELSE IF is_str(value) /\ IsPathField(place)
    THEN VString(env_normalize(norm.env,
                               join(parent(norm.target_path), value.v)).path)
    ELSE value

\* no key-path of PATH_NORMALIZATION starts with a section of the document
NoMatchingSection(root) ==
    \A i \in DOMAIN PATH_NORMALIZATION : PATH_NORMALIZATION[i][1] \notin DOMAIN root

\* C23: normalize_paths changes exactly the leaf fields its key-paths lead
\* to, an empty segment standing for every element of an array or every
\* value of a map: each such string is replaced by env.normalize(script
\* directory joined with the old value), in every entry of a section, every
\* other value of the document is as before, and a document without a
\* matching section is returned as it is
C23_OnlyPathFieldsChange ==
    Rewritten =>
        /\ norm.once.ok => VTable(norm.once.root) = WithPathsRewritten(VTable(norm.manifest), <<>>)
        /\ NoMatchingSection(norm.manifest) =>
                (norm.once.ok /\ norm.once.root = norm.manifest)

\* both dependencies of a document were rewritten, to different paths, and
\* the section without a key-path kept its path
C23_Witness ==
    /\ Rewritten
    /\ norm.once.ok
    /\ "dependencies" \in DOMAIN norm.manifest
    /\ norm.manifest["dependencies"] = VTable("dep" :> WithPath("d") @@ "other" :> WithPath("p"))
    /\ norm.once.root["dependencies"]
            = VTable("dep" :> VTable("path" :> VString(<<"/", "w", "/", "sub", "/", "d">>))
                     @@ "other" :> VTable("path" :> VString(<<"/", "w", "/", "sub", "/", "p">>)))
    /\ norm.once.root["features"] = norm.manifest["features"]
    /\ "bin" \in DOMAIN norm.manifest
    /\ is_array(norm.manifest["bin"])
    /\ Len(norm.manifest["bin"].v) = 2

(***************************************************************************)
(* Claims about the default action                                         *)
(***************************************************************************)
\* the default-action configuration of the prepared project, absent counting
\* as run
ConfiguredAction ==
    IF project_info.options.default_action.some THEN project_info.options.default_action.v
    ELSE <<(<<"run">>)>>

\* wop, the configuration, the arguments of the user
FullArgs == <<(<<"wop">>)>> \o ConfiguredAction \o Drop(argv, 3)

\* C24: for every default action (target, arguments of the user) and every
\* default-action configuration, absent and empty included,
\* merge_default_args does not panic and returns wop, the configuration and
\* the arguments of the user with the target inserted at index 2, behind a
\* command at index 1
C24_MergeNeverPanics ==
    /\ ~(exit.kind = "panic" /\ exit.msg = "insertion index is out of bounds")
    /\ (pc = "execute_args" /\ depth = 2) =>
            /\ Len(FullArgs) >= 2
            /\ stdout[Len(stdout)]
                    = Printed(":: cargo", <<FullArgs[1], FullArgs[2], argv[2]>> \o Drop(FullArgs, 3))

(***************************************************************************)
(* Claims about parse_args: the debug keywords                             *)
(***************************************************************************)
\* argv is <wop k-debug target A...> for k = build or k = run
IsDebugCall(a) ==
    Len(a) >= 3 /\ a[1] = <<"wop">> /\ a[2] \in {<<"build-debug">>, <<"run-debug">>}

\* the argument list with the keyword without its suffix
WithBaseKeyword(a) ==
    [a EXCEPT ![2] = IF a[2] = <<"run-debug">> THEN <<"run">> ELSE <<"build">>]

\* args without the --release element
WithoutRelease(as) ==
    LET other(x) == x # <<"--release">> IN SelectSeq(as, other)

\* C25: for every target and every list A of further arguments, run-debug
\* resolves to the variant, command and target run resolves to, and to the
\* args of run without the --release element; build-debug relates to build
\* in the same way
C25_DebugIsBaseWithoutRelease ==
    (Resolved /\ IsDebugCall(argv)) =>
        LET base == parse_args(WithBaseKeyword(argv))
        IN  /\ resolved.tag = base.tag
            /\ resolved.variant = base.variant
            /\ resolved.command = base.command
            /\ resolved.target = base.target
            /\ resolved.args = WithoutRelease(base.args)

(***************************************************************************)
(* Claims about prepare_manifest_dir: failures before the first write      *)
(***************************************************************************)
\* the variants of Args for which execute_args calls prepare_manifest_dir
PreparingVariants ==
    {"DefaultAction", "GenericCargoCall", "BuildCargoCall", "InstallCargoCall"}

\* the script is there, and parse_manifest, parse_custom_section or
\* normalize_manifest fails for it
DescriptorFails(target, file) ==
    LET normalizes(manifest) ==
            /\ parse_custom_section(manifest).ok
            /\ normalize_manifest(manifest, target, Env).ok
        parses(manifest) == manifest.tag = "Ok" /\ normalizes(manifest.doc)
    IN  file.exists /\ ~parses(parse_manifest(file.lines))

\* a step of execute_args that calls prepare_manifest_dir for such a script
PrepareOfFailingDescriptor ==
    /\ pc = "execute_args"
    /\ args.variant \in PreparingVariants
    /\ files' = files
    /\ DescriptorFails(args.target, read_file(files, args.target))

\* the run ended with the error of prepare_manifest_dir for such a script
PrepareFailedForDescriptor ==
    /\ pc = "exited"
    /\ exit.kind = "error"
    /\ exit.msg = "prepare_manifest_dir"
    /\ DescriptorFails(last_read.target, last_read.file)

\* C26: when the extraction of the descriptor, the parsing of the cargo-wop
\* section or the normalization fails, prepare_manifest_dir leaves the cache
\* as it is (no directory is created, a manifest that is there keeps its
\* content), the run ends with an error, and no subprocess was spawned in it
C26_FailedPrepareChangesNothing ==
    /\ [][PrepareOfFailingDescriptor =>
            /\ cache' = cache
            /\ spawned' = <<>>
            /\ pc' = "exited"
            /\ exit'.kind = "error"]_vars
    /\ [](PrepareFailedForDescriptor => spawned = <<>>)

\* a run ended so for a script whose manifest was written by an earlier run
C26_Witness ==
    /\ PrepareFailedForDescriptor
    /\ previous.exists
    /\ manifest_file(last_read.target) = previous

(***************************************************************************)
(* Claims about the project name                                           *)
(***************************************************************************)
\* the package name in the manifest of the project directory that the
\* toolchain is pointed at
ManifestPackageName ==
    cache[project_info.manifest_dir][CargoToml].toml["package"].v["name"]

\* C27: for every descriptor, one that names its package included, the
\* project name that parse_build_output matches package ids against is the
\* package name in the manifest handed to the toolchain
C27_ProjectNameIsPackageName ==
    pc \in {"prepared", "built"} => ManifestPackageName = VString(project_info.name)

====
